---- MODULE Spec2Model ----
(***************************************************************************)
(* Model of the image-location resolution code of ExcelToPDFTemplate       *)
(* (src/CatchExcelImageTool.py): the two process-wide caches, the Scheme A *)
(* (DISPIMG / cellimages.xml) resolver, the Scheme B (floating image       *)
(* anchor) position map and the extraction operations built on them; of    *)
(* the row loop of the form filling (src/core.py); and of the start button *)
(* and worker thread of the desktop interface (src/gui.py).                *)
(*                                                                         *)
(* Conventions of the model                                                *)
(*  - A text (cell value) is a sequence of lexical units; the double quote *)
(*    is a unit of its own, so that str.find('"') and slicing are computed *)
(*    as the code computes them.                                           *)
(*  - File paths, sheet names, identifiers and archive entry names are     *)
(*    strings; the cache key is their concatenation as in the code.        *)
(*  - The spreadsheet files are an input chosen by Init (variable files);  *)
(*    only ReplaceArchive rewrites the archive parts of one of them.       *)
(*  - Python's None is the string "None"; an uncaught exception of a call  *)
(*    is recorded in ret.raised.                                           *)
(***************************************************************************)
EXTENDS Integers, Sequences, FiniteSets, TLC

(***************************************************************************)
(* Bounds of the model.                                                    *)
(***************************************************************************)
MaxRow == 2
MaxImages == 2
MaxFormulas == 2
MaxLoads == 2
MaxDataRows == 2

Rows == 1..MaxRow
Cols == {1, 2}
Grid == Rows \X Cols

None == "None"
NoError == "ok"

(***************************************************************************)
(* Generic helpers.                                                        *)
(***************************************************************************)
SetMax(S) == CHOOSE m \in S : \A x \in S : x <= m

SetMin(S) == CHOOSE m \in S : \A x \in S : m <= x

Range(seq) == {seq[i] : i \in 1..Len(seq)}

EmptyMap == [x \in {} |-> 0]

\* All sequences over S of length at most n.
SeqsUpTo(S, n) == UNION {[1..k -> S] : k \in 0..n}

\* A Python dict filled by  d[key(e)] = val(e)  for e in seq, in order:
\* a later element with the same key overwrites the earlier one.
DictFromSeq(seq, keyField, valField) ==
    LET keys == {seq[i][keyField] : i \in 1..Len(seq)}
    IN  [k \in keys |->
            seq[SetMax({i \in 1..Len(seq) : seq[i][keyField] = k})][valField]]

(***************************************************************************)
(* Texts: sequences of lexical units, with Python's str operations.        *)
(***************************************************************************)
Quote == "\""

\* needle in hay   (contiguous sub-sequence)
Contains(hay, needle) ==
    \E i \in 0..(Len(hay) - Len(needle)) :
        \A j \in 1..Len(needle) : hay[i + j] = needle[j]

\* hay.find(unit, start): 0-based index of the first occurrence at or after
\* start, -1 when there is none.
Find(hay, unit, start) ==
    LET hits == {i \in start..(Len(hay) - 1) : hay[i + 1] = unit}
    IN  IF hits = {} THEN -1 ELSE SetMin(hits)

\* hay[start:end] with Python's treatment of a negative end.
Slice(hay, start, end) ==
    LET e == IF end < 0 THEN Len(hay) + end ELSE end
        hi == IF e > Len(hay) THEN Len(hay) ELSE e
    IN  IF hi <= start THEN <<>> ELSE SubSeq(hay, start + 1, hi)

RECURSIVE Join(_)
\* The string a text stands for.
Join(text) == IF text = <<>> THEN "" ELSE Head(text) \o Join(Tail(text))

(***************************************************************************)
(* The spreadsheet files (the input).                                      *)
(*                                                                         *)
(* A file is a record                                                      *)
(*   zip         zipfile.ZipFile(path) opens it                            *)
(*   loads       openpyxl.load_workbook(path) parses it                    *)
(*   sheets      sheet name -> [cells : Grid -> text, images : Seq(image)] *)
(*   hasManifest the archive holds xl/cellimages.xml                       *)
(*   pics        its xdr:pic elements, in document order: [name, rid]      *)
(*   hasRels     the archive holds xl/_rels/cellimages.xml.rels            *)
(*   rels        its Relationship elements: [id, target]                   *)
(*   entries     archive entry name -> bytes (a string; "" is no bytes)    *)
(* An image is [anchor, data]; an anchor is                                *)
(*   [from   : it has the attribute _from,                                 *)
(*    fromRC : _from has row and col,                                      *)
(*    flat   : the anchor itself has row and col,                          *)
(*    row, col : the zero-based values read]                               *)
(***************************************************************************)
P1 == "p"
P2 == "p#s"
S1 == "s#t"
S2 == "t"

SheetArgs == {S1, S2}
ImageIds == {"ID_1", "ID_2"}
IdArgs == ImageIds \cup {"ID_9"}

EmptyText == <<>>
Dispimg(id) == <<"=", "_xlfn.", "DISPIMG(", Quote, id, Quote, ",1)">>
PlainDispimg(id) == <<"=", "DISPIMG(", Quote, id, Quote, ",1)">>

AnchorFrom(r, c) == [from |-> TRUE, fromRC |-> TRUE, flat |-> FALSE, row |-> r, col |-> c]
AnchorFlat(r, c) == [from |-> FALSE, fromRC |-> FALSE, flat |-> TRUE, row |-> r, col |-> c]
AnchorStr == [from |-> FALSE, fromRC |-> FALSE, flat |-> FALSE, row |-> 0, col |-> 0]
\* An anchor whose from sub-object has no row and col while the anchor
\* itself has them.
AnchorBoth(r, c) == [from |-> TRUE, fromRC |-> FALSE, flat |-> TRUE, row |-> r, col |-> c]

AnchorShapes == {AnchorFrom(0, 1), AnchorFrom(1, 1), AnchorFlat(0, 1), AnchorStr}

\* The image list of a sheet whose anchors are the given ones; the bytes of
\* an image are named after its place in the list.
ImagesOf(anchors) ==
    [i \in 1..Len(anchors) |-> [anchor |-> anchors[i], data |-> "IMG" \o ToString(i - 1), format |-> "PNG"]]

ImageLists == {ImagesOf(a) : a \in SeqsUpTo(AnchorShapes, MaxImages)}

NoCells == [g \in Grid |-> EmptyText]

BaseCells ==
    [g \in Grid |->
        IF g = <<1, 1>> THEN Dispimg("ID_1")
        ELSE IF g = <<2, 1>> THEN Dispimg("ID_2")
        ELSE EmptyText]

PlainCells == [g \in Grid |-> IF g = <<1, 1>> THEN PlainDispimg("ID_1") ELSE EmptyText]

CellTexts == {EmptyText, Dispimg("ID_1"), Dispimg("ID_2")}

CellLayouts ==
    {f \in [Grid -> CellTexts] :
        Cardinality({g \in Grid : f[g] # EmptyText}) <= MaxFormulas}

BaseImages == ImagesOf(<<AnchorFrom(0, 1)>>)

Pic(n, r) == [name |-> n, rid |-> r]
Rel(i, t) == [id |-> i, target |-> t]

Media1 == "media/image1.png"
Media2 == "media/image2.jpeg"

BaseEntries ==
    [e \in {"xl/" \o Media1, "xl/" \o Media2} |->
        IF e = "xl/" \o Media1 THEN "PNG1" ELSE "JPG2"]

\* Archive entry names are made of a directory prefix, a stem and an
\* extension, so that startswith, os.path.basename and os.path.splitext are
\* computed from the parts; an entry with neither stem nor extension is a
\* directory entry (its name ends with the slash).
Entry(prefix, stem, ext, data) ==
    [name |-> prefix \o stem \o ext, prefix |-> prefix, stem |-> stem, ext |-> ext,
     data |-> data]

MediaPrefix == "xl/media/"

\* Every entry name of the model, in archive order (z.filelist).
EntryTable ==
    << Entry("xl/worksheets/", "sheet1", ".xml", "XML0"),
       Entry(MediaPrefix, "", "", ""),
       Entry(MediaPrefix, "image3", ".emf", "EMF3"),
       Entry(MediaPrefix, "image4", ".webp", "WEBP4"),
       Entry(MediaPrefix, "image1", ".png", "PNG1"),
       Entry(MediaPrefix, "image2", ".jpeg", "JPG2"),
       Entry(MediaPrefix, "IMAGE5", ".PNG", "PNG5") >>

EntryOf(name) == CHOOSE e \in Range(EntryTable) : e.name = name

\* The entries of an archive that holds the table's entries numbered in sel.
EntriesOf(sel) ==
    [n \in {EntryTable[i].name : i \in sel} |-> EntryOf(n).data]

\* Archives without manifest that differ in their entries.
MediaArchives ==
    {[hasManifest |-> FALSE, pics |-> <<>>, hasRels |-> FALSE, rels |-> <<>>,
      entries |-> EntriesOf(sel)] : sel \in SUBSET (1..Len(EntryTable))}

Archive(m, p, hr, r, e) ==
    [hasManifest |-> m, pics |-> p, hasRels |-> hr, rels |-> r, entries |-> e]

BaseArchive ==
    Archive(TRUE, <<Pic("ID_1", "rId1"), Pic("ID_2", "rId2")>>,
            TRUE, <<Rel("rId1", Media1), Rel("rId2", Media2)>>, BaseEntries)

\* The base archive after its two relationships exchanged their targets.
SwappedArchive ==
    Archive(TRUE, <<Pic("ID_1", "rId1"), Pic("ID_2", "rId2")>>,
            TRUE, <<Rel("rId1", Media2), Rel("rId2", Media1)>>, BaseEntries)

Archives ==
    { BaseArchive,
      \* no scheme-A manifest at all (a plain Office workbook with media)
      Archive(FALSE, <<>>, FALSE, <<>>, BaseEntries),
      \* the manifest without its relationship part
      Archive(TRUE, <<Pic("ID_1", "rId1")>>, FALSE, <<>>, BaseEntries),
      \* a relationship whose target is not an entry of the archive
      Archive(TRUE, <<Pic("ID_1", "rId1"), Pic("ID_2", "rId2")>>,
              TRUE, <<Rel("rId1", "media/gone.png"), Rel("rId2", Media2)>>, BaseEntries),
      \* a picture whose relationship id has no relationship
      Archive(TRUE, <<Pic("ID_1", "rId7"), Pic("ID_2", "rId2")>>,
              TRUE, <<Rel("rId1", Media1), Rel("rId2", Media2)>>, BaseEntries),
      \* a target entry of zero bytes
      Archive(TRUE, <<Pic("ID_1", "rId1")>>, TRUE, <<Rel("rId1", Media1)>>,
              [e \in {"xl/" \o Media1} |-> ""]),
      \* the same name twice, and a relationship no picture uses
      Archive(TRUE, <<Pic("ID_1", "rId1"), Pic("ID_1", "rId2")>>,
              TRUE, <<Rel("rId1", Media1), Rel("rId2", Media2), Rel("rId3", Media1)>>,
              BaseEntries) }

Workbook(cells, images, sheet, arch) ==
    [zip |-> TRUE, loads |-> TRUE,
     sheets |-> [n \in {sheet} |-> [cells |-> cells, images |-> images]],
     hasManifest |-> arch.hasManifest, pics |-> arch.pics,
     hasRels |-> arch.hasRels, rels |-> arch.rels, entries |-> arch.entries]

\* A file that is a zip archive but no workbook, and one that is no archive.
Unparsable(f) == [f EXCEPT !.loads = FALSE]
NotAnArchive(f) == [f EXCEPT !.loads = FALSE, !.zip = FALSE]

BaseWorkbook == Workbook(BaseCells, BaseImages, S1, BaseArchive)

\* The second file: one sheet, no formula, one image anchored at (2, 1).
OtherWorkbook ==
    Workbook(NoCells, ImagesOf(<<AnchorFrom(1, 0)>>), S2,
             Archive(FALSE, <<>>, FALSE, <<>>, BaseEntries))

OneFile(f) == [p \in {P1} |-> f]
TwoFiles(f, g) == [p \in {P1, P2} |-> IF p = P1 THEN f ELSE g]

\* The inputs of the cache operations and the cell lookup: the base
\* workbook with every image list, alone; the base workbook beside a second
\* file whose name and sheet name give the same cache key; files that do
\* not parse.
CacheWorlds ==
         {OneFile(Workbook(BaseCells, i, S1, BaseArchive)) : i \in ImageLists}
    \cup {TwoFiles(BaseWorkbook, OtherWorkbook),
          TwoFiles(BaseWorkbook, Unparsable(OtherWorkbook)),
          OneFile(Unparsable(BaseWorkbook)),
          OneFile(Workbook(BaseCells, ImagesOf(<<AnchorBoth(0, 1), AnchorFrom(1, 1)>>), S1,
                           BaseArchive))}

\* The inputs of the extraction operations: around the base workbook, every
\* cell layout and every archive; files that do not parse or do not open.
ExtractWorlds ==
         {OneFile(Workbook(c, BaseImages, S1, BaseArchive)) : c \in CellLayouts}
    \cup {OneFile(Workbook(BaseCells, BaseImages, S1, a)) : a \in Archives}
    \cup {OneFile(Workbook(PlainCells, BaseImages, S1, BaseArchive)),
          OneFile(Unparsable(BaseWorkbook)),
          OneFile(NotAnArchive(BaseWorkbook))}

\* Cell texts for the identifier scan: both spellings of the formula, a
\* text without the pattern, a quoted text without the pattern.
PlainCellsB ==
    [g \in Grid |->
        IF g = <<1, 1>> THEN PlainDispimg("ID_1")
        ELSE IF g = <<1, 2>> THEN Dispimg("ID_2")
        ELSE EmptyText]

TextCells ==
    [g \in Grid |->
        IF g = <<1, 1>> THEN <<"photo of ", Quote, "ID_1", Quote>>
        ELSE IF g = <<1, 2>> THEN <<"DISPIMG">>
        ELSE EmptyText]

\* The inputs of the bulk extractions, the scans and the media
\* enumerations: every cell layout, every archive, every set of media
\* entries; files that do not parse or do not open.
BulkWorlds ==
         {OneFile(Workbook(c, BaseImages, S1, BaseArchive)) :
              c \in CellLayouts \cup {PlainCells, PlainCellsB, TextCells}}
    \cup {OneFile(Workbook(BaseCells, BaseImages, S1, a)) : a \in Archives \cup MediaArchives}
    \cup {OneFile(Unparsable(BaseWorkbook)),
          OneFile(NotAnArchive(BaseWorkbook))}

(***************************************************************************)
(* Scheme A: identifier scan and resolver.                                 *)
(***************************************************************************)
ColumnLetters == <<"A", "B">>

\* openpyxl.utils.get_column_letter
get_column_letter(c) == ColumnLetters[c]

\* openpyxl.utils.column_index_from_string
column_index_from_string(letter) ==
    CHOOSE c \in 1..Len(ColumnLetters) : ColumnLetters[c] = letter

\* ws.iter_rows(): the cells row by row, each row by ascending column.
iter_rows ==
    LET n == Cardinality(Cols)
    IN  [k \in 1..(MaxRow * n) |-> <<((k - 1) \div n) + 1, ((k - 1) % n) + 1>>]

DispimgPattern == <<"=", "_xlfn.", "DISPIMG(">>

\* The identifier the scan takes from one cell value that holds the
\* pattern: the text between the first quote and the next one.
QuotedId(value) ==
    LET start == Find(value, Quote, 0) + 1
        end == Find(value, Quote, start)
    IN  Join(Slice(value, start, end))

RECURSIVE ScanCells(_, _, _)
ScanCells(ws, col_idx, k) ==
    IF k > Len(iter_rows) THEN <<>>
    ELSE LET cell == iter_rows[k]
             value == ws.cells[cell]
             rest == ScanCells(ws, col_idx, k + 1)
         IN  IF col_idx # 0 /\ cell[2] # col_idx THEN rest
             ELSE IF Contains(value, DispimgPattern) THEN <<QuotedId(value)>> \o rest
             ELSE rest

\* Mutant: the scan does not look at the column.
extract_dispimg_ids_every_column(ws, target_col) == ScanCells(ws, 0, 1)

\* _extract_dispimg_ids(ws, target_col); target_col is a column letter, or
\* None for the whole sheet.
extract_dispimg_ids(ws, target_col) ==
    ScanCells(ws, IF target_col = None THEN 0 ELSE column_index_from_string(target_col), 1)

\* The places where the pattern of core.extract_dispimg_id matches:
\*   =(?:_xlfn\.)?DISPIMG\("([^"]+)"
\* i is the index of "=", j that of "DISPIMG(", e that of the closing quote.
DispimgMatches(value) ==
    {m \in [i : 1..Len(value), j : 1..Len(value), e : 1..Len(value)] :
        /\ value[m.i] = "="
        /\ \/ m.j = m.i + 1
           \/ m.j = m.i + 2 /\ value[m.i + 1] = "_xlfn."
        /\ value[m.j] = "DISPIMG("
        /\ m.j + 1 <= Len(value) /\ value[m.j + 1] = Quote
        /\ m.e > m.j + 2
        /\ value[m.e] = Quote
        /\ \A k \in (m.j + 2)..(m.e - 1) : value[k] # Quote}

\* core.py ExcelToPDFProcessor.extract_dispimg_id(cell_value): the group of
\* the leftmost match, None without a match or for an empty value.
extract_dispimg_id(cell_value) ==
    LET ms == DispimgMatches(cell_value)
    IN  IF cell_value = <<>> \/ ms = {} THEN None
        ELSE LET m == CHOOSE x \in ms : \A y \in ms : x.i <= y.i
             IN  Join(SubSeq(cell_value, m.j + 2, m.e - 1))

\* Mutant: the resolver without its except clause.
build_id_to_image_map_uncaught(f) ==
    IF ~f.zip THEN [raised |-> "BadZipFile", map |-> EmptyMap]
    ELSE IF ~f.hasManifest \/ ~f.hasRels THEN [raised |-> "KeyError", map |-> EmptyMap]
    ELSE LET name_to_rid == DictFromSeq(f.pics, "name", "rid")
             rid_to_path == DictFromSeq(f.rels, "id", "target")
         IN  [raised |-> NoError,
              map |-> [n \in {m \in DOMAIN name_to_rid : name_to_rid[m] \in DOMAIN rid_to_path}
                          |-> rid_to_path[name_to_rid[n]]]]

\* _build_id_to_image_map: [raised, map].  Opening a file that is no archive
\* raises (zipfile.BadZipFile is no KeyError); a missing manifest or a
\* missing relationship part is the KeyError the code turns into {}.
build_id_to_image_map(f) ==
    IF ~f.zip THEN [raised |-> "BadZipFile", map |-> EmptyMap]
    ELSE IF ~f.hasManifest \/ ~f.hasRels THEN [raised |-> NoError, map |-> EmptyMap]
    ELSE LET name_to_rid == DictFromSeq(f.pics, "name", "rid")
             rid_to_path == DictFromSeq(f.rels, "id", "target")
         IN  [raised |-> NoError,
              map |-> [n \in {m \in DOMAIN name_to_rid : name_to_rid[m] \in DOMAIN rid_to_path}
                          |-> rid_to_path[name_to_rid[n]]]]

\* get_all_image_ids: [raised, ids] (the keys of the mapping).
get_all_image_ids(f) ==
    LET r == build_id_to_image_map(f)
    IN  [raised |-> r.raised, ids |-> DOMAIN r.map]

File(name, data) == [name |-> name, data |-> data]

\* The outcome of a call as far as the caller and the file system see it:
\*   result   the location returned ("None" for None)
\*   raised   the exception that left the call (NoError for none)
\*   written  the files it wrote in the output directory
\*   reads    the archive entries it read as image data
Outcome(result, raised, written, reads) ==
    [result |-> result, raised |-> raised, written |-> written, reads |-> reads]

\* The output directory, which exists or can be created (os.makedirs): a
\* file can be written in it, or open(..., 'wb') raises.
DestStates == {"writable", "readonly"}

\* Mutant: the identifiers are resolved with the mapping of the base
\* archive, as if the first resolution had been kept.
extract_image_by_id_resolved_once(f, image_id, dest) ==
    LET g == Workbook(BaseCells, BaseImages, S1, BaseArchive)
        img_internal == "xl/" \o build_id_to_image_map(g).map[image_id]
        out_file == image_id \o ".png"
    IN  IF image_id \notin DOMAIN build_id_to_image_map(g).map
        THEN Outcome(None, NoError, {}, {})
        ELSE IF dest = "readonly" THEN Outcome(None, "OSError", {}, {img_internal})
        ELSE Outcome(out_file, NoError,
                     {File(out_file, g.entries[img_internal])}, {img_internal})

\* extract_image_by_id(xlsx_path, image_id, output_dir)
extract_image_by_id(f, image_id, dest) ==
    LET r == build_id_to_image_map(f)
        img_internal == "xl/" \o r.map[image_id]
        out_file == image_id \o ".png"
    IN  IF r.raised # NoError THEN Outcome(None, r.raised, {}, {})
        ELSE IF image_id \notin DOMAIN r.map THEN Outcome(None, NoError, {}, {})
        ELSE IF img_internal \notin DOMAIN f.entries THEN Outcome(None, "KeyError", {}, {})
        ELSE IF dest = "readonly" THEN Outcome(None, "OSError", {}, {img_internal})
        ELSE Outcome(out_file, NoError,
                     {File(out_file, f.entries[img_internal])}, {img_internal})

RECURSIVE SaveAll(_, _, _, _, _, _)
\* The loop of the bulk extractions (lines 262-269) over the identifiers in
\* the order the set yields them: [saved, raised, written, reads].  An
\* exception ends the loop and leaves the call.
SaveAll(f, id_to_path, order, k, dest, acc) ==
    IF k > Len(order) THEN acc
    ELSE LET img_id == order[k]
             img_internal == "xl/" \o id_to_path[img_id]
             out_file == img_id \o ".png"
         IN  IF img_id \notin DOMAIN id_to_path
             THEN SaveAll(f, id_to_path, order, k + 1, dest, acc)
             ELSE IF img_internal \notin DOMAIN f.entries
             THEN [acc EXCEPT !.raised = "KeyError"]
             ELSE IF dest = "readonly"
             THEN [acc EXCEPT !.raised = "OSError", !.reads = @ \cup {img_internal}]
             ELSE SaveAll(f, id_to_path, order, k + 1, dest,
                          [acc EXCEPT !.saved = Append(@, out_file),
                                      !.written = @ \cup {File(out_file, f.entries[img_internal])},
                                      !.reads = @ \cup {img_internal}])

\* The orders in which  for img_id in set(all_ids)  may run.
Orders(ids) ==
    {o \in [1..Cardinality(ids) -> ids] : \A i, j \in DOMAIN o : i # j => o[i] # o[j]}

RECURSIVE AllIds(_, _)
\* all_ids over wb.worksheets, the sheets taken in the given order
AllIds(f, sheets) ==
    IF sheets = <<>> THEN <<>>
    ELSE extract_dispimg_ids(f.sheets[Head(sheets)], None) \o AllIds(f, Tail(sheets))

\* extract_workbook_images(xlsx_path, output_dir), the loop over set(all_ids)
\* run in the given order: [saved, raised, written, reads].
extract_workbook_images(f, dest, order) ==
    LET none == [saved |-> <<>>, raised |-> NoError, written |-> {}, reads |-> {}]
        id_to_path == build_id_to_image_map(f)
    IN  IF ~f.loads THEN [none EXCEPT !.raised = "InvalidFileException"]
        ELSE IF id_to_path.raised # NoError THEN [none EXCEPT !.raised = id_to_path.raised]
        ELSE SaveAll(f, id_to_path.map, order, 1, dest, none)

\* The identifiers the loop of a bulk extraction runs over, set(ids).
IdSet(ids) == Range(ids)

\* extract_sheet_images(xlsx_path, sheet_name, output_dir), the loop over
\* set(ids) run in the given order: [saved, raised, written, reads].
\* wb[sheet_name] raises KeyError for a sheet the workbook does not have.
extract_sheet_images(f, sheet_name, dest, order) ==
    LET none == [saved |-> <<>>, raised |-> NoError, written |-> {}, reads |-> {}]
        id_to_path == build_id_to_image_map(f)
    IN  IF ~f.loads THEN [none EXCEPT !.raised = "InvalidFileException"]
        ELSE IF sheet_name \notin DOMAIN f.sheets THEN [none EXCEPT !.raised = "KeyError"]
        ELSE IF id_to_path.raised # NoError THEN [none EXCEPT !.raised = id_to_path.raised]
        ELSE SaveAll(f, id_to_path.map, order, 1, dest, none)

\* extract_column_images(xlsx_path, sheet_name, column, output_dir): the
\* same loop; order enumerates set(ids) for the identifiers of the column.
extract_column_images(f, sheet_name, column, dest, order) ==
    LET none == [saved |-> <<>>, raised |-> NoError, written |-> {}, reads |-> {}]
        id_to_path == build_id_to_image_map(f)
    IN  IF ~f.loads THEN [none EXCEPT !.raised = "InvalidFileException"]
        ELSE IF sheet_name \notin DOMAIN f.sheets THEN [none EXCEPT !.raised = "KeyError"]
        ELSE IF id_to_path.raised # NoError THEN [none EXCEPT !.raised = id_to_path.raised]
        ELSE SaveAll(f, id_to_path.map, order, 1, dest, none)

(***************************************************************************)
(* Media enumerations.                                                     *)
(***************************************************************************)
\* z.filelist: the names of the archive's entries in archive order.
filelist(f) ==
    LET names == [i \in 1..Len(EntryTable) |-> EntryTable[i].name]
    IN  SelectSeq(names, LAMBDA n : n \in DOMAIN f.entries)

\* file_info.filename.startswith('xl/media/') and not file_info.is_dir()
IsMediaFile(name) ==
    /\ EntryOf(name).prefix = MediaPrefix
    /\ EntryOf(name).stem \o EntryOf(name).ext # ""

\* os.path.basename(filename)
basename(name) == EntryOf(name).stem \o EntryOf(name).ext

\* os.path.splitext(filename)[1].lower()
LowerExt(name) == IF EntryOf(name).ext = ".PNG" THEN ".png" ELSE EntryOf(name).ext

\* _extract_floating_images(xlsx_path): the base names of the media files;
\* the empty list when the archive does not open (every exception is caught).
extract_floating_images(f) ==
    IF ~f.zip THEN <<>>
    ELSE LET media == SelectSeq(filelist(f), IsMediaFile)
         IN  [i \in 1..Len(media) |-> basename(media[i])]

\* The extensions extract_floating_images_from_sheet keeps (line 344).
SheetExtensions == {".png", ".jpg", ".jpeg", ".gif", ".bmp", ".tiff", ".webp"}

\* The extensions extract_first_available_image keeps (line 395).
FirstExtensions == {".png", ".jpg", ".jpeg", ".gif", ".bmp"}

RECURSIVE SaveMedia(_, _, _, _, _)
\* The loop over media_files (lines 348-363): a file that cannot be written
\* is passed over.
SaveMedia(f, media_files, k, dest, acc) ==
    IF k > Len(media_files) THEN acc
    ELSE LET media_file == media_files[k]
             out_file == "floating_" \o ToString(k) \o "_" \o basename(media_file)
         IN  IF dest = "readonly"
             THEN SaveMedia(f, media_files, k + 1, dest,
                            [acc EXCEPT !.reads = @ \cup {media_file}])
             ELSE SaveMedia(f, media_files, k + 1, dest,
                            [acc EXCEPT !.saved = Append(@, out_file),
                                        !.written = @ \cup {File(out_file, f.entries[media_file])},
                                        !.reads = @ \cup {media_file}])

\* extract_floating_images_from_sheet(xlsx_path, sheet_name, output_dir):
\* [saved, raised, written, reads]; the sheet name is not used by the code.
extract_floating_images_from_sheet(f, sheet_name, dest) ==
    LET none == [saved |-> <<>>, raised |-> NoError, written |-> {}, reads |-> {}]
        media_files == SelectSeq(filelist(f),
                                 LAMBDA n : IsMediaFile(n) /\ LowerExt(n) \in SheetExtensions)
    IN  IF ~f.zip THEN none
        ELSE SaveMedia(f, media_files, 1, dest, none)

\* The first key of the resolver's mapping (dict order: the order in which
\* the names first appear in the manifest).
FirstKey(f, map) ==
    LET firsts == {i \in 1..Len(f.pics) : f.pics[i].name \in DOMAIN map}
    IN  f.pics[SetMin(firsts)].name

\* extract_first_available_image(xlsx_path, output_dir, prefix = 'image')
extract_first_available_image(f, dest) ==
    LET ids == get_all_image_ids(f)
        byId == extract_image_by_id(f, FirstKey(f, build_id_to_image_map(f).map), dest)
        media == SelectSeq(filelist(f),
                           LAMBDA n : IsMediaFile(n) /\ LowerExt(n) \in FirstExtensions)
        out_file == "image" \o LowerExt(media[1])
    IN  IF ids.raised = NoError /\ ids.ids # {} /\ byId.raised = NoError
        THEN byId
        ELSE IF ~f.zip \/ media = <<>> THEN Outcome(None, NoError, {}, {})
        ELSE IF dest = "readonly" THEN Outcome(None, NoError, {}, {media[1]})
        ELSE Outcome(out_file, NoError, {File(out_file, f.entries[media[1]])}, {media[1]})

(***************************************************************************)
(* Workbooks and archives a call leaves open.                              *)
(***************************************************************************)
\* The bulk extractions load a workbook of their own (lines 252, 279, 306)
\* and return, or raise, without closing it; their archive is opened in a
\* with statement.
BulkUnclosed(f) == IF f.loads THEN {"workbook"} ELSE {}

\* _get_cell_floating_image(xlsx_path, sheet_name, cell_address): [result,
\* unclosed].  It returns None on every path; wb.close() (line 235) is not
\* reached by the early return for a sheet the workbook does not have.
get_cell_floating_image(f, sheet_name) ==
    IF ~f.loads THEN [result |-> None, unclosed |-> {}]
    ELSE IF sheet_name \notin DOMAIN f.sheets THEN [result |-> None, unclosed |-> {"workbook"}]
    ELSE [result |-> None, unclosed |-> {}]

(***************************************************************************)
(* The caches.  The operators below are the functions of the module as     *)
(* state transformers over a cache state st:                               *)
(*   wbc     _workbook_cache: path -> workbook object (the number of the   *)
(*           load_workbook call that made it)                              *)
(*   ipc     _image_position_cache: key -> position map                    *)
(*   nl      how many workbook objects the cache functions have loaded     *)
(*   closed  the workbook objects close() was called on                    *)
(* and two history fields, which no code reads:                            *)
(*   bf      key -> [path, sheet, wb]: the request a stored map was built  *)
(*           for, and the workbook object it was built from (0: none)      *)
(*   sc      <<path, sheet>> -> how many times the build (the anchor scan, *)
(*           source lines 42-92) ran for the pair since the last clear     *)
(***************************************************************************)
cache_key(xlsx_path, sheet_name) == xlsx_path \o "#" \o sheet_name

Put(f, k, v) == [x \in DOMAIN f \cup {k} |-> IF x = k THEN v ELSE f[x]]

\* Mutant: the workbook is loaded on every call.
get_cached_workbook_reloads(st, fs, xlsx_path) ==
    IF ~fs[xlsx_path].loads
    THEN [raised |-> "InvalidFileException", wb |-> 0, st |-> st]
    ELSE [raised |-> NoError, wb |-> st.nl + 1,
          st |-> [st EXCEPT !.wbc = Put(@, xlsx_path, st.nl + 1), !.nl = @ + 1]]

\* Mutant: a file that does not parse is cached as an empty workbook and
\* no error is raised.
get_cached_workbook_swallows(st, fs, xlsx_path) ==
    IF xlsx_path \in DOMAIN st.wbc
    THEN [raised |-> NoError, wb |-> st.wbc[xlsx_path], st |-> st]
    ELSE IF ~fs[xlsx_path].loads
    THEN [raised |-> NoError, wb |-> 0, st |-> [st EXCEPT !.wbc = Put(@, xlsx_path, 0)]]
    ELSE [raised |-> NoError, wb |-> st.nl + 1,
          st |-> [st EXCEPT !.wbc = Put(@, xlsx_path, st.nl + 1), !.nl = @ + 1]]

\* _get_cached_workbook: [raised, wb, st].
get_cached_workbook(st, fs, xlsx_path) ==
    IF xlsx_path \in DOMAIN st.wbc
    THEN [raised |-> NoError, wb |-> st.wbc[xlsx_path], st |-> st]
    ELSE IF ~fs[xlsx_path].loads
    THEN [raised |-> "InvalidFileException", wb |-> 0, st |-> st]
    ELSE [raised |-> NoError, wb |-> st.nl + 1,
          st |-> [st EXCEPT !.wbc = Put(@, xlsx_path, st.nl + 1), !.nl = @ + 1]]

\* The anchor of one image as the build reads it: <<row, col>> one-based,
\* or <<>> when the image is skipped (lines 63-79).
AnchorPosition(img) ==
    LET a == img.anchor
    IN  IF a.from
        THEN (IF a.fromRC THEN <<a.row + 1, a.col + 1>> ELSE <<>>)
        ELSE IF a.flat THEN <<a.row + 1, a.col + 1>>
        ELSE <<>>

RECURSIVE ScanImages_first_wins(_, _, _)
\* Mutant: a position that already has an index keeps it.
ScanImages_first_wins(images, k, position_map) ==
    IF k > Len(images) THEN position_map
    ELSE LET pos == AnchorPosition(images[k])
         IN  ScanImages_first_wins(images, k + 1,
                        IF pos = <<>> \/ pos \in DOMAIN position_map THEN position_map
                        ELSE Put(position_map, pos, k - 1))

\* Mutant: an image is numbered by the images recorded before it, so a
\* skipped image takes no index.
ScanImages_dense(images, k, position_map) ==
    LET recorded == {j \in 1..Len(images) : AnchorPosition(images[j]) # <<>>}
    IN  [pos \in {AnchorPosition(images[j]) : j \in recorded} |->
            Cardinality({i \in recorded :
                            i < SetMax({j \in recorded : AnchorPosition(images[j]) = pos})})]

RECURSIVE ScanImages(_, _, _)
\* for i, img in enumerate(ws._images): position_map[(row, col)] = i
ScanImages(images, k, position_map) ==
    IF k > Len(images) THEN position_map
    ELSE LET pos == AnchorPosition(images[k])
         IN  ScanImages(images, k + 1,
                        IF pos = <<>> THEN position_map
                        ELSE Put(position_map, pos, k - 1))

\* The position map of a sheet of a parsed workbook.
ScanSheet(f, sheet_name) ==
    IF sheet_name \notin DOMAIN f.sheets THEN EmptyMap
    ELSE ScanImages(f.sheets[sheet_name].images, 1, EmptyMap)

\* Mutant: the build never looks its key up.
CacheHit_never(st, xlsx_path, sheet_name) == FALSE

\* Whether a request finds its map stored (line 39).
CacheHit(st, xlsx_path, sheet_name) ==
    cache_key(xlsx_path, sheet_name) \in DOMAIN st.ipc

\* Mutant: a build whose workbook does not load stores nothing.
build_image_position_cache_retries(st, fs, xlsx_path, sheet_name) ==
    LET key == cache_key(xlsx_path, sheet_name)
        cached == xlsx_path \in DOMAIN st.wbc
        loaded == cached \/ fs[xlsx_path].loads
        wb == IF cached THEN st.wbc[xlsx_path] ELSE st.nl + 1
    IN  IF CacheHit(st, xlsx_path, sheet_name)
        THEN [map |-> st.ipc[key], st |-> st]
        ELSE IF ~loaded
        THEN [map |-> EmptyMap,
              st |-> [st EXCEPT !.sc = [@ EXCEPT ![<<xlsx_path, sheet_name>>] = 1]]]
        ELSE [map |-> ScanSheet(fs[xlsx_path], sheet_name),
              st |-> [st EXCEPT
                        !.wbc = IF ~cached THEN Put(@, xlsx_path, wb) ELSE @,
                        !.nl = IF ~cached THEN @ + 1 ELSE @,
                        !.ipc = Put(@, key, ScanSheet(fs[xlsx_path], sheet_name)),
                        !.bf = Put(@, key, [path |-> xlsx_path, sheet |-> sheet_name,
                                            wb |-> wb]),
                        !.sc = [@ EXCEPT ![<<xlsx_path, sheet_name>>] = @ + 1]]]

\* _build_image_position_cache: [map, st].
build_image_position_cache(st, fs, xlsx_path, sheet_name) ==
    LET key == cache_key(xlsx_path, sheet_name)
        cached == xlsx_path \in DOMAIN st.wbc
        loaded == cached \/ fs[xlsx_path].loads
        wb == IF cached THEN st.wbc[xlsx_path] ELSE st.nl + 1
        position_map == IF loaded THEN ScanSheet(fs[xlsx_path], sheet_name) ELSE EmptyMap
    IN  IF CacheHit(st, xlsx_path, sheet_name)
        THEN [map |-> st.ipc[key], st |-> st]
        ELSE [map |-> position_map,
              st |-> [st EXCEPT
                        !.wbc = IF loaded /\ ~cached THEN Put(@, xlsx_path, wb) ELSE @,
                        !.nl = IF loaded /\ ~cached THEN @ + 1 ELSE @,
                        !.ipc = Put(@, key, position_map),
                        !.bf = Put(@, key, [path |-> xlsx_path, sheet |-> sheet_name,
                                            wb |-> IF loaded THEN wb ELSE 0]),
                        !.sc = [@ EXCEPT ![<<xlsx_path, sheet_name>>] = @ + 1]]]

\* Mutant: clear closes and drops the workbooks but keeps the position maps.
clear_image_cache_keeps_maps(st) ==
    [st EXCEPT !.closed = @ \cup {st.wbc[p] : p \in DOMAIN st.wbc},
               !.wbc = EmptyMap,
               !.sc = [pr \in DOMAIN @ |-> 0]]

\* clear_image_cache
clear_image_cache(st) ==
    [st EXCEPT !.closed = @ \cup {st.wbc[p] : p \in DOMAIN st.wbc},
               !.ipc = EmptyMap,
               !.wbc = EmptyMap,
               !.bf = EmptyMap,
               !.sc = [pr \in DOMAIN @ |-> 0]]

(***************************************************************************)
(* Scheme B extraction and the composite lookup.                           *)
(***************************************************************************)
LowerCase == [PNG |-> "png", JPEG |-> "jpeg"]

\* _extract_image_from_openpyxl_object: every exception is caught there.
extract_image_from_openpyxl_object(img, image_index, dest) ==
    LET out_file == "matched_image_" \o ToString(image_index + 1) \o "." \o LowerCase[img.format]
    IN  IF dest # "writable" THEN Outcome(None, NoError, {}, {})
        ELSE Outcome(out_file, NoError, {File(out_file, img.data)}, {})

\* _extract_floating_image_from_cell: [out, st].  ws is the sheet of the
\* cached workbook, fs[xlsx_path].sheets[sheet_name].
extract_floating_image_from_cell(st, fs, xlsx_path, sheet_name, target_row, target_col, dest) ==
    LET b == build_image_position_cache(st, fs, xlsx_path, sheet_name)
        images == fs[xlsx_path].sheets[sheet_name].images
        image_index == b.map[<<target_row, target_col>>]
    IN  IF <<target_row, target_col>> \in DOMAIN b.map /\ image_index < Len(images)
        THEN [out |-> extract_image_from_openpyxl_object(images[image_index + 1], image_index, dest),
              st |-> b.st]
        ELSE [out |-> Outcome(None, NoError, {}, {}), st |-> b.st]

RECURSIVE TryIds(_, _, _, _)
\* for img_id in dispimg_ids: result = extract_image_by_id(...); if result: return
\* The outcome of the first identifier that yields a file or raises; the
\* result None without an exception when no identifier does.
TryIds(f, dispimg_ids, k, dest) ==
    IF k > Len(dispimg_ids) THEN Outcome(None, NoError, {}, {})
    ELSE LET r == extract_image_by_id(f, dispimg_ids[k], dest)
         IN  IF r.raised # NoError \/ r.result # None THEN r
             ELSE TryIds(f, dispimg_ids, k + 1, dest)

\* What the except clause of extract_image_from_cell makes of an outcome:
\* an exception becomes the result None.
Caught(out) == IF out.raised # NoError THEN Outcome(None, NoError, out.written, out.reads) ELSE out

\* Mutant: the position-map lookup comes first, Scheme A only after it.
extract_image_from_cell_B_first(st, fs, xlsx_path, sheet_name, row, col, dest) ==
    LET g == get_cached_workbook(st, fs, xlsx_path)
        f == fs[xlsx_path]
        ws == f.sheets[sheet_name]
        dispimg_ids == extract_dispimg_ids(ws, get_column_letter(col))
        a == TryIds(f, dispimg_ids, 1, dest)
        b == extract_floating_image_from_cell(g.st, fs, xlsx_path, sheet_name, row, col, dest)
    IN  IF g.raised # NoError
        THEN [out |-> Outcome(None, NoError, {}, {}), st |-> st, schemeB |-> FALSE]
        ELSE IF sheet_name \notin DOMAIN f.sheets
        THEN [out |-> Outcome(None, NoError, {}, {}), st |-> g.st, schemeB |-> FALSE]
        ELSE IF b.out.result # None
        THEN [out |-> Caught(b.out), st |-> b.st, schemeB |-> TRUE]
        ELSE [out |-> Caught(a), st |-> b.st, schemeB |-> TRUE]

\* extract_image_from_cell: [out, st, schemeB].  schemeB records whether the
\* call went on to the position-map lookup (line 470).
extract_image_from_cell(st, fs, xlsx_path, sheet_name, row, col, dest) ==
    LET g == get_cached_workbook(st, fs, xlsx_path)
        f == fs[xlsx_path]
        ws == f.sheets[sheet_name]
        dispimg_ids == extract_dispimg_ids(ws, get_column_letter(col))
        a == TryIds(f, dispimg_ids, 1, dest)
        b == extract_floating_image_from_cell(g.st, fs, xlsx_path, sheet_name, row, col, dest)
    IN  IF g.raised # NoError
        THEN [out |-> Outcome(None, NoError, {}, {}), st |-> st, schemeB |-> FALSE]
        ELSE IF sheet_name \notin DOMAIN f.sheets
        THEN [out |-> Outcome(None, NoError, {}, {}), st |-> g.st, schemeB |-> FALSE]
        ELSE IF a.raised # NoError \/ a.result # None
        THEN [out |-> Caught(a), st |-> g.st, schemeB |-> FALSE]
        ELSE [out |-> Caught(b.out), st |-> b.st, schemeB |-> TRUE]

(***************************************************************************)
(* Form filling (core.py, process_excel_to_pdf): the loop over the data    *)
(* rows.  A data row is the value of its cell in column A, a text whose    *)
(* units are characters, or NaN for an empty cell (pandas).  The run is a  *)
(* record                                                                  *)
(*   pc                  "ready", "rows" (in the loop), "done"             *)
(*   filename_column     the configured column: "" for none                *)
(*   rows                the data rows                                     *)
(*   next                actual_row_num of the row to process next         *)
(*   success_count, error_messages (the row numbers), generated_pdf_paths  *)
(*   documents           the files in the output folder                    *)
(*   success             the "success" of the returned dict                *)
(***************************************************************************)
NaN == <<"float nan">>

\* str(value)
PyStr(val) == IF val = NaN THEN <<"n", "a", "n">> ELSE val

RECURSIVE Strip(_)
\* str.strip()
Strip(text) ==
    IF text = <<>> THEN text
    ELSE IF Head(text) = " " THEN Strip(Tail(text))
    ELSE IF text[Len(text)] = " " THEN Strip(SubSeq(text, 1, Len(text) - 1))
    ELSE text

IllegalChars == {"<", ">", ":", Quote, "/", "\\", "|", "?", "*"}

\* re.sub(r'[<>:"/\\|?*]', '_', filename_value)
ReplaceIllegal(text) ==
    [i \in 1..Len(text) |-> IF text[i] \in IllegalChars THEN "_" ELSE text[i]]

\* excel_col_letter_to_index for the column letters of the model; the rows
\* of the model have one cell, so that "Z" lies beyond the row.
excel_col_letter_to_index(col) == IF col = "A" THEN 0 ELSE 25

RowWidth == 1

\* The output file name of a data row (lines 574-593).
OutputFilename(filename_column, row, actual_row_num) ==
    LET numbered == ToString(actual_row_num) \o ".pdf"
        filename_value == ReplaceIllegal(Strip(PyStr(row)))
    IN  IF filename_column = "" THEN numbered
        ELSE IF excel_col_letter_to_index(filename_column) >= RowWidth THEN numbered
        ELSE IF filename_value # <<>> THEN Join(filename_value) \o ".pdf"
        ELSE numbered

\* What can happen to a row: the form is filled and written; fill_pdf_form
\* reports a failure; an exception is raised before the form is filled; the
\* form is filled and the progress callback raises.
RowOutcomes ==
    {"filled", "failed", "raised", "filled_callback_raised", "failed_callback_raised"}

\* One pass of the loop body (lines 439-622) for the row p.next.
process_row(p, outcome) ==
    LET actual_row_num == p.next
        output_pdf_path == OutputFilename(p.filename_column, p.rows[actual_row_num],
                                          actual_row_num)
        filled == outcome \in {"filled", "filled_callback_raised"}
        error == outcome \in {"failed", "raised", "filled_callback_raised",
                               "failed_callback_raised"}
    IN  [p EXCEPT !.next = @ + 1,
                  !.success_count = IF filled THEN @ + 1 ELSE @,
                  !.generated_pdf_paths = IF filled THEN Append(@, output_pdf_path) ELSE @,
                  !.documents = IF filled THEN @ \cup {output_pdf_path} ELSE @,
                  !.error_messages =
                      IF outcome = "failed_callback_raised"
                      THEN Append(Append(@, actual_row_num), actual_row_num)
                      ELSE IF error THEN Append(@, actual_row_num) ELSE @]

FilenameValues == {<<"a", "/", "b">>, <<"a", ":", "b">>, <<" ">>, <<"2">>, NaN}

FilenameColumns == {"", "A", "Z"}

NoRun ==
    [pc |-> "idle", filename_column |-> "", rows |-> <<>>, next |-> 1,
     success_count |-> 0, error_messages |-> <<>>, generated_pdf_paths |-> <<>>,
     documents |-> {}, success |-> FALSE]

\* The two callers of the cache functions.
Threads == {"T1", "T2"}

\* A thread that is in no cache call.
IdleFrame == [pc |-> "idle", path |-> "", sheet |-> "", wb |-> 0, map |-> EmptyMap]

NoThreads == [t \in Threads |-> IdleFrame]

\* The interface before the first run: the start button is enabled, no
\* worker runs, no callback is pending.
NoGui == [button |-> "normal", workers |-> 0, queue |-> <<>>, status |-> "", log |-> ""]

(***************************************************************************)
(* State.                                                                  *)
(***************************************************************************)
VARIABLES
    files,                  \* path -> file: the spreadsheets on disk
    workbook_cache,         \* _workbook_cache
    image_position_cache,   \* _image_position_cache
    built_from,             \* history: what each stored map was built from
    loads,                  \* workbook objects loaded by the cache so far
    closed,                 \* workbook objects that were closed
    scans,                  \* history: builds per (path, sheet) since the last clear
    ret,                    \* the last call: its arguments and what it returned
    proc,                   \* the run of process_excel_to_pdf
    threads,                \* thread -> the frame of the cache call it is in
    exclusive,              \* whether the callers serialise their cache calls
    parsed,                 \* history: load_workbook calls per path since the last clear
    gui                     \* the desktop interface: button, worker, event queue

vars == <<files, workbook_cache, image_position_cache, built_from, loads, closed, scans, ret,
          proc, threads, exclusive, parsed, gui>>

\* What the operations of one caller leave alone.
Elsewhere == <<threads, exclusive, parsed, gui>>

St ==
    [wbc |-> workbook_cache, ipc |-> image_position_cache, bf |-> built_from,
     nl |-> loads, closed |-> closed, sc |-> scans]

\* The call leaves the caches in state st.
Becomes(st) ==
    /\ st.nl <= MaxLoads
    /\ workbook_cache' = st.wbc
    /\ image_position_cache' = st.ipc
    /\ built_from' = st.bf
    /\ loads' = st.nl
    /\ closed' = st.closed
    /\ scans' = st.sc
    /\ UNCHANGED <<files, proc, Elsewhere>>

NoCall ==
    [op |-> "none", path |-> "", sheet |-> "", row |-> 0, col |-> 0, id |-> "",
     dest |-> "", result |-> None, raised |-> NoError, written |-> {}, reads |-> {},
     map |-> EmptyMap, saved |-> <<>>, ids |-> {}, wb |-> 0, hit |-> FALSE,
     schemeB |-> FALSE, evicted |-> {}, dropped |-> {},
     column |-> "", scan |-> <<>>, listed |-> <<>>, leaked |-> {}]

Returned(call, out) ==
    [call EXCEPT !.result = out.result, !.raised = out.raised,
                 !.written = out.written, !.reads = out.reads]

InitIn(worlds) ==
    /\ files \in worlds
    /\ workbook_cache = EmptyMap
    /\ image_position_cache = EmptyMap
    /\ built_from = EmptyMap
    /\ loads = 0
    /\ closed = {}
    /\ scans = [pr \in (DOMAIN files) \X SheetArgs |-> 0]
    /\ ret = NoCall
    /\ proc = NoRun
    /\ threads = NoThreads
    /\ exclusive = TRUE
    /\ parsed = [p \in DOMAIN files |-> 0]
    /\ gui = NoGui

(***************************************************************************)
(* The operations.                                                         *)
(***************************************************************************)
\* get_workbook
GetCachedWorkbook(path) ==
    \E g \in {get_cached_workbook(St, files, path)} :
        /\ Becomes(g.st)
        /\ ret' = [NoCall EXCEPT !.op = "get_cached_workbook", !.path = path,
                                 !.raised = g.raised, !.wb = g.wb]

\* get_position_map
BuildImagePositionCache(path, sheet) ==
    \E b \in {build_image_position_cache(St, files, path, sheet)} :
        /\ Becomes(b.st)
        /\ ret' = [NoCall EXCEPT !.op = "build_image_position_cache", !.path = path,
                                 !.sheet = sheet, !.map = b.map,
                                 !.hit = CacheHit(St, path, sheet)]

\* clear
ClearImageCache ==
    /\ Becomes(clear_image_cache(St))
    /\ ret' = [NoCall EXCEPT !.op = "clear_image_cache",
                             !.evicted = {workbook_cache[p] : p \in DOMAIN workbook_cache},
                             !.dropped = {<<built_from[k].path, built_from[k].sheet>> :
                                            k \in DOMAIN built_from}]

\* extract_from_cell
ExtractImageFromCell(path, sheet, row, col, dest) ==
    \E e \in {extract_image_from_cell(St, files, path, sheet, row, col, dest)} :
        /\ Becomes(e.st)
        /\ ret' = Returned([NoCall EXCEPT !.op = "extract_image_from_cell", !.path = path,
                                          !.sheet = sheet, !.row = row, !.col = col,
                                          !.dest = dest, !.schemeB = e.schemeB],
                           e.out)

\* extract_by_identifier
ExtractImageById(path, id, dest) ==
    /\ Becomes(St)
    /\ ret' = Returned([NoCall EXCEPT !.op = "extract_image_by_id", !.path = path,
                                      !.id = id, !.dest = dest],
                       extract_image_by_id(files[path], id, dest))

\* The sheets of a workbook in one fixed order (wb.worksheets).
RECURSIVE SeqOfSet(_)
SeqOfSet(S) == IF S = {} THEN <<>> ELSE LET x == CHOOSE y \in S : TRUE
                                        IN  <<x>> \o SeqOfSet(S \ {x})

\* extract_all_in_workbook
ExtractWorkbookImages(path, dest) ==
    LET f == files[path]
        all_ids == IF f.loads THEN AllIds(f, SeqOfSet(DOMAIN f.sheets)) ELSE <<>>
    IN  \E order \in Orders(Range(all_ids)) :
            \E x \in {extract_workbook_images(f, dest, order)} :
                /\ Becomes(St)
                /\ ret' = [NoCall EXCEPT !.op = "extract_workbook_images", !.path = path,
                                         !.dest = dest, !.saved = x.saved,
                                         !.raised = x.raised, !.written = x.written,
                                         !.reads = x.reads, !.leaked = BulkUnclosed(f)]

\* get_all_image_ids
GetAllImageIds(path) ==
    LET r == get_all_image_ids(files[path])
    IN  /\ Becomes(St)
        /\ ret' = [NoCall EXCEPT !.op = "get_all_image_ids", !.path = path,
                                 !.raised = r.raised, !.ids = r.ids]

Init == InitIn(CacheWorlds)

\* The cache operations and the cell lookup.
Next ==
    \/ \E path \in DOMAIN files : GetCachedWorkbook(path)
    \/ \E path \in DOMAIN files, sheet \in SheetArgs : BuildImagePositionCache(path, sheet)
    \/ ClearImageCache
    \/ \E path \in DOMAIN files, sheet \in SheetArgs, g \in Grid, dest \in DestStates :
           ExtractImageFromCell(path, sheet, g[1], g[2], dest)

Spec == Init /\ [][Next]_vars

\* Between two calls the archive on disk is rewritten: the calls open the
\* path anew each time (lines 145, 424), the cached workbook stays as parsed.
ReplaceArchive(path) ==
    /\ files[path] = BaseWorkbook
    /\ files' = [files EXCEPT ![path] = Workbook(BaseCells, BaseImages, S1, SwappedArchive)]
    /\ ret' = [NoCall EXCEPT !.op = "replace_archive", !.path = path]
    /\ UNCHANGED <<workbook_cache, image_position_cache, built_from, loads, closed, scans,
                   proc, Elsewhere>>

InitExtract == InitIn(ExtractWorlds)

\* The extraction operations.
NextExtract ==
    \/ \E path \in DOMAIN files, sheet \in SheetArgs, g \in Grid, dest \in DestStates :
           ExtractImageFromCell(path, sheet, g[1], g[2], dest)
    \/ \E path \in DOMAIN files, id \in IdArgs, dest \in DestStates :
           ExtractImageById(path, id, dest)
    \/ \E path \in DOMAIN files, dest \in DestStates : ExtractWorkbookImages(path, dest)
    \/ \E path \in DOMAIN files : GetAllImageIds(path)
    \/ ClearImageCache
    \/ \E path \in DOMAIN files : ReplaceArchive(path)

SpecExtract == InitExtract /\ [][NextExtract]_vars

\* The identifiers a bulk extraction on one sheet loops over; column is a
\* column letter or None (lines 280-281, 308-309).
SheetIds(f, sheet, column) ==
    IF f.loads /\ sheet \in DOMAIN f.sheets
    THEN extract_dispimg_ids(f.sheets[sheet], column)
    ELSE <<>>

\* extract_all_in_sheet
ExtractSheetImages(path, sheet, dest) ==
    \E order \in Orders(IdSet(SheetIds(files[path], sheet, None))) :
        \E x \in {extract_sheet_images(files[path], sheet, dest, order)} :
            /\ Becomes(St)
            /\ ret' = [NoCall EXCEPT !.op = "extract_sheet_images", !.path = path,
                                     !.sheet = sheet, !.dest = dest, !.saved = x.saved,
                                     !.raised = x.raised, !.written = x.written,
                                     !.reads = x.reads, !.leaked = BulkUnclosed(files[path])]

\* extract_all_in_column
ExtractColumnImages(path, sheet, column, dest) ==
    \E order \in Orders(IdSet(SheetIds(files[path], sheet, column))) :
        \E x \in {extract_column_images(files[path], sheet, column, dest, order)} :
            /\ Becomes(St)
            /\ ret' = [NoCall EXCEPT !.op = "extract_column_images", !.path = path,
                                     !.sheet = sheet, !.column = column, !.dest = dest,
                                     !.saved = x.saved, !.raised = x.raised,
                                     !.written = x.written, !.reads = x.reads,
                                     !.leaked = BulkUnclosed(files[path])]

ColumnArgs == Range(ColumnLetters)

\* The identifier scan of one sheet, restricted to a column or not.
ExtractDispimgIds(path, sheet, column) ==
    /\ files[path].loads
    /\ sheet \in DOMAIN files[path].sheets
    /\ Becomes(St)
    /\ ret' = [NoCall EXCEPT !.op = "extract_dispimg_ids", !.path = path, !.sheet = sheet,
                             !.column = column,
                             !.scan = extract_dispimg_ids(files[path].sheets[sheet], column)]

\* The form-filling side's identifier extraction, applied to one cell value.
ExtractDispimgId(path, sheet, row, col) ==
    /\ files[path].loads
    /\ sheet \in DOMAIN files[path].sheets
    /\ Becomes(St)
    /\ ret' = [NoCall EXCEPT !.op = "extract_dispimg_id", !.path = path, !.sheet = sheet,
                             !.row = row, !.col = col,
                             !.result = extract_dispimg_id(files[path].sheets[sheet].cells[<<row, col>>])]

\* list_media_filenames
ExtractFloatingImages(path) ==
    /\ Becomes(St)
    /\ ret' = [NoCall EXCEPT !.op = "extract_floating_images", !.path = path,
                             !.listed = extract_floating_images(files[path])]

ExtractFloatingImagesFromSheet(path, sheet, dest) ==
    \E x \in {extract_floating_images_from_sheet(files[path], sheet, dest)} :
        /\ Becomes(St)
        /\ ret' = [NoCall EXCEPT !.op = "extract_floating_images_from_sheet", !.path = path,
                                 !.sheet = sheet, !.dest = dest, !.saved = x.saved,
                                 !.raised = x.raised, !.written = x.written,
                                 !.reads = x.reads]

ExtractFirstAvailableImage(path, dest) ==
    /\ Becomes(St)
    /\ ret' = Returned([NoCall EXCEPT !.op = "extract_first_available_image", !.path = path,
                                      !.dest = dest],
                       extract_first_available_image(files[path], dest))

GetCellFloatingImage(path, sheet, row, col) ==
    \E x \in {get_cell_floating_image(files[path], sheet)} :
        /\ Becomes(St)
        /\ ret' = [NoCall EXCEPT !.op = "get_cell_floating_image", !.path = path,
                                 !.sheet = sheet, !.row = row, !.col = col,
                                 !.result = x.result, !.leaked = x.unclosed]

InitBulk == InitIn(BulkWorlds)

\* The bulk extractions, the identifier scans and the media enumerations.
NextBulk ==
    \/ \E path \in DOMAIN files, dest \in DestStates : ExtractWorkbookImages(path, dest)
    \/ \E path \in DOMAIN files, sheet \in SheetArgs, dest \in DestStates :
           ExtractSheetImages(path, sheet, dest)
    \/ \E path \in DOMAIN files, sheet \in SheetArgs, column \in ColumnArgs,
          dest \in DestStates :
           ExtractColumnImages(path, sheet, column, dest)
    \/ \E path \in DOMAIN files, sheet \in SheetArgs, column \in ColumnArgs \cup {None} :
           ExtractDispimgIds(path, sheet, column)
    \/ \E path \in DOMAIN files, sheet \in SheetArgs, g \in Grid :
           ExtractDispimgId(path, sheet, g[1], g[2])
    \/ \E path \in DOMAIN files : ExtractFloatingImages(path)
    \/ \E path \in DOMAIN files, sheet \in SheetArgs, dest \in DestStates :
           ExtractFloatingImagesFromSheet(path, sheet, dest)
    \/ \E path \in DOMAIN files, dest \in DestStates : ExtractFirstAvailableImage(path, dest)
    \/ \E path \in DOMAIN files, sheet \in SheetArgs, g \in Grid :
           GetCellFloatingImage(path, sheet, g[1], g[2])
    \/ \E path \in DOMAIN files, id \in IdArgs, dest \in DestStates :
           ExtractImageById(path, id, dest)

SpecBulk == InitBulk /\ [][NextBulk]_vars

Caches == <<files, workbook_cache, image_position_cache, built_from, loads, closed, scans, ret,
            Elsewhere>>

\* process_excel_to_pdf up to the loop: the inputs are checked and the
\* sheet is read (lines 381-438); an exception there is the failure result
\* (lines 679-685).
ProcessStart(valid) ==
    /\ proc.pc = "ready"
    /\ proc' = IF valid THEN [proc EXCEPT !.pc = "rows"]
                        ELSE [proc EXCEPT !.pc = "done", !.success = FALSE]
    /\ UNCHANGED Caches

\* One data row.
ProcessRow(outcome) ==
    /\ proc.pc = "rows"
    /\ proc.next <= Len(proc.rows)
    /\ proc' = process_row(proc, outcome)
    /\ UNCHANGED Caches

\* After the last row: the result dict (lines 667-677).
ProcessReturn ==
    /\ proc.pc = "rows"
    /\ proc.next > Len(proc.rows)
    /\ proc' = [proc EXCEPT !.pc = "done", !.success = TRUE]
    /\ UNCHANGED Caches

InitProcess ==
    /\ files = OneFile(BaseWorkbook)
    /\ workbook_cache = EmptyMap
    /\ image_position_cache = EmptyMap
    /\ built_from = EmptyMap
    /\ loads = 0
    /\ closed = {}
    /\ scans = [pr \in (DOMAIN files) \X SheetArgs |-> 0]
    /\ ret = NoCall
    /\ threads = NoThreads
    /\ exclusive = TRUE
    /\ parsed = [p \in DOMAIN files |-> 0]
    /\ gui = NoGui
    /\ \E rows \in SeqsUpTo(FilenameValues, MaxDataRows), column \in FilenameColumns :
          proc = [NoRun EXCEPT !.pc = "ready", !.rows = rows, !.filename_column = column]

NextProcess ==
    \/ \E valid \in BOOLEAN : ProcessStart(valid)
    \/ \E outcome \in RowOutcomes : ProcessRow(outcome)
    \/ ProcessReturn

SpecProcess == InitProcess /\ [][NextProcess]_vars

(***************************************************************************)
(* Position cache: claims C1, C2.                                          *)
(***************************************************************************)
RequestKey(call) == cache_key(call.path, call.sheet)

RequestPair(call) == <<call.path, call.sheet>>

\* C1: between two clears the build (the anchor scan) runs at most once for
\* a (path, sheet) pair, however often the pair is requested, and a request
\* whose key is stored returns the stored map, scans nothing and leaves the
\* cache as it was.
C1_ScanAtMostOnce ==
    /\ [](\A pr \in DOMAIN scans : scans[pr] <= 1)
    /\ [][(ret'.op = "build_image_position_cache" /\ CacheHit(St, ret'.path, ret'.sheet))
            => /\ scans' = scans
               /\ image_position_cache' = image_position_cache
               /\ workbook_cache' = workbook_cache
               /\ ret'.map = image_position_cache[RequestKey(ret')]]_vars

\* A pair that was built, with images in its map, is requested again and
\* served from the cache.
C1_Witness ==
    /\ ret.op = "build_image_position_cache"
    /\ ret.hit
    /\ ret.map # EmptyMap
    /\ scans[RequestPair(ret)] = 1

\* C2: clear is enabled in every state; when it has returned both caches are
\* empty and every workbook it found cached has been closed; a request made
\* next, for a pair whose map was stored before the clear, is a miss and
\* runs the build exactly once.
C2_ClearInvalidates ==
    /\ [](ENABLED ClearImageCache)
    /\ [](ret.op = "clear_image_cache"
            => /\ workbook_cache = EmptyMap
               /\ image_position_cache = EmptyMap
               /\ ret.evicted \subseteq closed)
    /\ [][(/\ ret.op = "clear_image_cache"
           /\ ret'.op = "build_image_position_cache"
           /\ RequestPair(ret') \in ret.dropped)
            => /\ ~ret'.hit
               /\ scans[RequestPair(ret')] = 0
               /\ scans'[RequestPair(ret')] = 1
               /\ RequestKey(ret') \in DOMAIN image_position_cache']_vars

\* After a clear that closed a workbook, a map with images in it was built
\* again, from a workbook loaded after the clear.
C2_Witness ==
    /\ ret.op = "build_image_position_cache"
    /\ ~ret.hit
    /\ ret.map # EmptyMap
    /\ closed # {}
    /\ built_from[RequestKey(ret)].wb \notin closed
    /\ built_from[RequestKey(ret)].wb > 1

(***************************************************************************)
(* Cell lookup: claims C3 - C8.                                            *)
(***************************************************************************)
\* The last call was extract_image_from_cell on a sheet of a workbook that
\* parses.
CellCall ==
    /\ ret.op = "extract_image_from_cell"
    /\ files[ret.path].loads
    /\ ret.sheet \in DOMAIN files[ret.path].sheets

CalledFile == files[ret.path]

CalledSheet == files[ret.path].sheets[ret.sheet]

CalledCell == <<ret.row, ret.col>>

\* The grid position an image is anchored at (<<>>: its anchor gives none):
\* the nested from sub-object when it has one, else the flat fields.
AnchorOf(img) ==
    IF img.anchor.from /\ img.anchor.fromRC THEN <<img.anchor.row + 1, img.anchor.col + 1>>
    ELSE IF img.anchor.flat THEN <<img.anchor.row + 1, img.anchor.col + 1>>
    ELSE <<>>

\* The zero-based indices of the images of a sheet anchored at pos.
AnchoredAt(sheet, pos) ==
    {i \in 0..(Len(sheet.images) - 1) : AnchorOf(sheet.images[i + 1]) = pos}

\* The identifiers the manifest and the relationships resolve, with the
\* archive entry of each.
Resolved(f) == build_id_to_image_map(f).map

\* C3: extract_from_cell on a cell whose formula is a DISPIMG reference to
\* X, the manifest mapping X to a relationship of target T and xl/T being an
\* entry of the archive, writes X.png holding the bytes of xl/T and returns
\* its location, whatever the other cells hold.
C3_CellImageWritten ==
    \A X \in ImageIds :
        (/\ CellCall
         /\ ret.dest = "writable"
         /\ CalledSheet.cells[CalledCell] = Dispimg(X)
         /\ X \in DOMAIN Resolved(CalledFile)
         /\ ("xl/" \o Resolved(CalledFile)[X]) \in DOMAIN CalledFile.entries)
        => /\ ret.result = X \o ".png"
           /\ ret.written = {File(X \o ".png",
                                  CalledFile.entries["xl/" \o Resolved(CalledFile)[X]])}

\* C4: extract_from_cell on a cell with no scheme-A formula and no floating
\* image anchored at exactly its position returns none and writes no file,
\* whatever the other cells and images are.
C4_EmptyCellYieldsNone ==
    (/\ CellCall
     /\ ~Contains(CalledSheet.cells[CalledCell], <<"DISPIMG(">>)
     /\ AnchoredAt(CalledSheet, CalledCell) = {})
    => /\ ret.result = None
       /\ ret.written = {}

\* C5: Scheme B returns an image for cell (r, c) only if a floating image of
\* that sheet is anchored at exactly (r, c).
C5_ExactPositionOnly ==
    (CellCall /\ ret.schemeB /\ ret.result # None)
    => AnchoredAt(CalledSheet, CalledCell) # {}

\* C6: Scheme A comes first and Scheme B only when Scheme A produced
\* nothing: the position-map lookup is reached only when no identifier
\* found in the cell's column is in the resolver's mapping, and a call that
\* returns a Scheme A file neither consults nor changes the position-map
\* cache.
C6_SchemeAFirst ==
    /\ []((CellCall /\ ret.schemeB)
            => \A id \in Range(extract_dispimg_ids(CalledSheet, get_column_letter(ret.col))) :
                   id \notin DOMAIN Resolved(CalledFile))
    /\ [][(/\ ret'.op = "extract_image_from_cell"
           /\ \E X \in ImageIds : ret'.result = X \o ".png")
            => /\ ~ret'.schemeB
               /\ image_position_cache' = image_position_cache
               /\ built_from' = built_from
               /\ scans' = scans]_vars

\* A call returned a Scheme A file for a cell while the position-map cache
\* held a map with an image at that very cell's sheet.
C6_Witness ==
    /\ CellCall
    /\ ret.result = "ID_1.png"
    /\ ret.written # {}
    /\ \E k \in DOMAIN image_position_cache : image_position_cache[k] # EmptyMap

\* C7: when two or more images of a sheet are anchored at one position, the
\* map built for the sheet gives that position the index of the last of
\* them in enumeration order, and the build raises nothing.
C7_LastWriteWins ==
    \A k \in DOMAIN image_position_cache :
        LET b == built_from[k]
            sheet == files[b.path].sheets[b.sheet]
        IN  (b.wb # 0 /\ b.sheet \in DOMAIN files[b.path].sheets)
            => \A pos \in Grid :
                   Cardinality(AnchoredAt(sheet, pos)) >= 2
                   => /\ pos \in DOMAIN image_position_cache[k]
                      /\ image_position_cache[k][pos] = SetMax(AnchoredAt(sheet, pos))

\* The build has just run on a sheet with two images at one position.
C7_Witness ==
    /\ ret.op = "build_image_position_cache"
    /\ ~ret.hit
    /\ ret.sheet \in DOMAIN files[ret.path].sheets
    /\ \E pos \in Grid :
          /\ Cardinality(AnchoredAt(files[ret.path].sheets[ret.sheet], pos)) >= 2
          /\ pos \in DOMAIN ret.map

\* C8: every lookup miss is a none / empty result, never an error, and
\* writes no file: an identifier absent from the resolver's mapping, an
\* absent sheet (cell lookup and position map), and a Scheme B lookup with
\* no anchor at the exact position.
C8_MissIsNone ==
    /\ (/\ ret.op = "extract_image_by_id"
        /\ files[ret.path].zip
        /\ ret.id \notin DOMAIN Resolved(files[ret.path]))
       => (ret.result = None /\ ret.raised = NoError /\ ret.written = {})
    /\ (/\ ret.op = "extract_image_from_cell"
        /\ files[ret.path].loads
        /\ ret.sheet \notin DOMAIN files[ret.path].sheets)
       => (ret.result = None /\ ret.raised = NoError /\ ret.written = {})
    /\ (/\ ret.op = "build_image_position_cache"
        /\ files[ret.path].loads
        /\ ret.sheet \notin DOMAIN files[ret.path].sheets)
       => (ret.map = EmptyMap /\ ret.raised = NoError)
    /\ (CellCall /\ ret.schemeB /\ AnchoredAt(CalledSheet, CalledCell) = {})
       => (ret.result = None /\ ret.raised = NoError /\ ret.written = {})

(***************************************************************************)
(* Scheme A resolver: claims C9, C10.                                      *)
(***************************************************************************)
\* C9: for a workbook whose archive has no manifest part the resolver gives
\* the empty mapping and raises nothing, and extract_all_in_workbook reads no
\* image entry, writes no file and returns the empty list.
C9_NoManifestNoExtraction ==
    /\ (/\ ret.op = "get_all_image_ids"
        /\ files[ret.path].zip
        /\ ~files[ret.path].hasManifest)
       => (ret.ids = {} /\ ret.raised = NoError)
    /\ (/\ ret.op = "extract_workbook_images"
        /\ files[ret.path].loads
        /\ ~files[ret.path].hasManifest)
       => /\ Resolved(files[ret.path]) = EmptyMap
          /\ ret.saved = <<>>
          /\ ret.written = {}
          /\ ret.reads = {}
          /\ ret.raised = NoError

\* extract_all_in_workbook has run on a workbook without manifest whose
\* cells hold DISPIMG formulas and whose archive holds media entries.
C9_Witness ==
    /\ ret.op = "extract_workbook_images"
    /\ files[ret.path].loads
    /\ ~files[ret.path].hasManifest
    /\ \E s \in DOMAIN files[ret.path].sheets :
          extract_dispimg_ids(files[ret.path].sheets[s], None) # <<>>
    /\ DOMAIN files[ret.path].entries # {}
    /\ ret.saved = <<>>

\* C10: round trip.  extract_by_identifier with an identifier of the
\* resolver's mapping, into a directory that can be written, returns the
\* location of a file that holds the bytes of the resolved entry, and these
\* are not empty.
C10_RoundTrip ==
    (/\ ret.op = "extract_image_by_id"
     /\ ret.dest = "writable"
     /\ files[ret.path].zip
     /\ ret.id \in get_all_image_ids(files[ret.path]).ids)
    => /\ ret.raised = NoError
       /\ ret.result = ret.id \o ".png"
       /\ \E w \in ret.written :
             /\ w.name = ret.result
             /\ w.data # ""
             /\ ("xl/" \o Resolved(files[ret.path])[ret.id]) \in DOMAIN files[ret.path].entries
             /\ w.data = files[ret.path].entries["xl/" \o Resolved(files[ret.path])[ret.id]]

(***************************************************************************)
(* Bulk extraction and the identifier scan: claims C11 - C13.              *)
(***************************************************************************)
\* The cells of a column of the sheet the last call named.
ColumnCells(column) ==
    {files[ret.path].sheets[ret.sheet].cells[<<r, column_index_from_string(column)>>] :
        r \in Rows}

\* C11: the column-restricted scan returns only identifiers that stand in a
\* cell of the requested column, and extract_all_in_column saves X.png only
\* when a cell of the requested column holds a DISPIMG formula for X; a
\* formula in another column, the same row included, is not extracted.
C11_ColumnOnly ==
    /\ (ret.op = "extract_dispimg_ids" /\ ret.column # None)
       => \A id \in Range(ret.scan) :
              \E text \in ColumnCells(ret.column) : id \in Range(text)
    /\ ret.op = "extract_column_images"
       => \A X \in ImageIds :
              (X \o ".png" \in Range(ret.saved) \/ \E w \in ret.written : w.name = X \o ".png")
              => \E text \in ColumnCells(ret.column) : text \in {Dispimg(X), PlainDispimg(X)}

\* Column B was extracted and gave the image of B1 alone, while A1, in the
\* same row, holds the formula of another image the archive resolves.
C11_Witness ==
    /\ ret.op = "extract_column_images"
    /\ ret.column = "B"
    /\ ret.saved = <<"ID_2.png">>
    /\ files[ret.path].sheets[ret.sheet].cells[<<1, 1>>] = Dispimg("ID_1")
    /\ files[ret.path].sheets[ret.sheet].cells[<<1, 2>>] = Dispimg("ID_2")
    /\ "ID_1" \in DOMAIN Resolved(files[ret.path])

\* The last call was a bulk extraction on a workbook that parses and, for
\* the sheet and column extractions, on a sheet the workbook has.
BulkCall ==
    /\ ret.op \in {"extract_workbook_images", "extract_sheet_images", "extract_column_images"}
    /\ files[ret.path].loads
    /\ ret.op # "extract_workbook_images" => ret.sheet \in DOMAIN files[ret.path].sheets

\* The identifiers the cells in the scope of the last bulk call refer to.
ReferencedIds ==
    LET f == files[ret.path]
    IN  IF ret.op = "extract_workbook_images"
        THEN UNION {Range(extract_dispimg_ids(f.sheets[n], None)) : n \in DOMAIN f.sheets}
        ELSE IF ret.op = "extract_sheet_images"
        THEN Range(extract_dispimg_ids(f.sheets[ret.sheet], None))
        ELSE Range(extract_dispimg_ids(f.sheets[ret.sheet], ret.column))

\* An identifier whose image can be extracted: the mapping resolves it and
\* its target is an entry of the archive.
Extractable(f, X) ==
    /\ X \in DOMAIN Resolved(f)
    /\ ("xl/" \o Resolved(f)[X]) \in DOMAIN f.entries

\* C12: a bulk extraction into a directory that can be written raises
\* nothing, whatever image cannot be resolved or read, and saves every
\* referenced image that can be.
C12_BulkTolerant ==
    (BulkCall /\ ret.dest = "writable")
    => /\ ret.raised = NoError
       /\ \A X \in ReferencedIds :
              Extractable(files[ret.path], X) => X \o ".png" \in Range(ret.saved)

\* C13: the identifier extraction accepts the formula with and without the
\* namespace prefix: a cell holding =DISPIMG("X",...) or
\* =_xlfn.DISPIMG("X",...) yields X, and a text without the pattern yields
\* nothing, both in the scan of the extraction operations and in the
\* form-filling side's extract_dispimg_id.
C13_PrefixOptional ==
    /\ ret.op = "extract_dispimg_id"
       => LET text == files[ret.path].sheets[ret.sheet].cells[<<ret.row, ret.col>>]
          IN  /\ \A X \in ImageIds :
                     text \in {Dispimg(X), PlainDispimg(X)} => ret.result = X
              /\ ~Contains(text, <<"DISPIMG(">>) => ret.result = None
    /\ ret.op = "extract_dispimg_ids"
       => LET cells == files[ret.path].sheets[ret.sheet].cells
              scanned == {g \in Grid : ret.column = None
                                         \/ g[2] = column_index_from_string(ret.column)}
          IN  /\ \A g \in scanned : \A X \in ImageIds :
                     cells[g] \in {Dispimg(X), PlainDispimg(X)} => X \in Range(ret.scan)
              /\ (\A g \in scanned : ~Contains(cells[g], <<"DISPIMG(">>)) => ret.scan = <<>>

(***************************************************************************)
(* The workbook cache: claims C14 - C16.                                   *)
(***************************************************************************)
\* C14: between two clears a path is parsed at most once by the cache
\* operations: a workbook is loaded only for a path the workbook cache does
\* not hold and is stored for it, a stored workbook is replaced or dropped
\* only by clear, and every stored map that was built from a workbook was
\* built from the one cached for its path.
C14_ParsedOncePerPath ==
    /\ [][loads' # loads
            => /\ loads' = loads + 1
               /\ ret'.path \notin DOMAIN workbook_cache
               /\ workbook_cache' = Put(workbook_cache, ret'.path, loads')]_vars
    /\ [][(\E p \in DOMAIN workbook_cache :
               p \notin DOMAIN workbook_cache' \/ workbook_cache'[p] # workbook_cache[p])
            => ret'.op = "clear_image_cache"]_vars
    /\ [][ret'.op = "get_cached_workbook" /\ ret'.path \in DOMAIN workbook_cache
            => ret'.wb = workbook_cache[ret'.path]]_vars
    /\ [](\A k \in DOMAIN image_position_cache :
              built_from[k].wb # 0
              => /\ built_from[k].path \in DOMAIN workbook_cache
                 /\ workbook_cache[built_from[k].path] = built_from[k].wb)

\* get_workbook returned the one workbook loaded so far, after the maps of
\* two sheets of its path were built from it.
C14_Witness ==
    /\ ret.op = "get_cached_workbook"
    /\ ret.wb = 1
    /\ loads = 1
    /\ \E j, k \in DOMAIN image_position_cache :
          /\ j # k
          /\ built_from[j].path = ret.path /\ built_from[j].wb = 1
          /\ built_from[k].path = ret.path /\ built_from[k].wb = 1

\* C15: get_workbook on a file that does not parse raises the parse error
\* to its caller and stores nothing for the path, so that every later call
\* goes to the parser again (and raises again while the file is as it was).
C15_ParseErrorSurfaced ==
    /\ [](ret.op = "get_cached_workbook" /\ ~files[ret.path].loads
            => /\ ret.raised = "InvalidFileException"
               /\ ret.wb = 0
               /\ ret.path \notin DOMAIN workbook_cache)
    /\ [][ret'.op = "get_cached_workbook" /\ ~files[ret'.path].loads
            => /\ workbook_cache' = workbook_cache
               /\ image_position_cache' = image_position_cache
               /\ loads' = loads]_vars

\* get_workbook raised for a file that does not parse, after a position
\* map was requested, and stored, for the same file and while the workbook
\* of another file is cached.
C15_Witness ==
    /\ ret.op = "get_cached_workbook"
    /\ ret.raised = "InvalidFileException"
    /\ workbook_cache # EmptyMap
    /\ \E k \in DOMAIN image_position_cache : built_from[k].path = ret.path

\* C16: a position map is scoped to its (path, sheet) pair: the map
\* get_position_map returns for a pair was built for that pair, never for
\* another one.
C16_MapsScopedToPair ==
    (ret.op = "build_image_position_cache" /\ ret.hit)
    => /\ built_from[RequestKey(ret)].path = ret.path
       /\ built_from[RequestKey(ret)].sheet = ret.sheet

(***************************************************************************)
(* Form filling: claim C17.                                                *)
(***************************************************************************)
\* The run returned success and every data row was filled.
AllRowsFilled ==
    /\ proc.pc = "done"
    /\ proc.success
    /\ proc.success_count = Len(proc.rows)
    /\ proc.error_messages = <<>>

\* C17: one filled document per data row: when each of the N data rows was
\* filled, N distinct documents exist and generated_pdf_paths holds N
\* distinct paths, with sequential numbering and with a filename column.
C17_OneDocumentPerRow ==
    AllRowsFilled
    => /\ Cardinality(proc.documents) = Len(proc.rows)
       /\ Len(proc.generated_pdf_paths) = Len(proc.rows)
       /\ Cardinality(Range(proc.generated_pdf_paths)) = Len(proc.rows)

(***************************************************************************)
(* Handles, write failures, media enumeration: claims C18 - C20.           *)
(***************************************************************************)
\* C18: when an operation has returned or raised, every workbook and
\* archive it opened itself has been closed: nothing but the workbooks of
\* the workbook cache is left open.
C18_HandlesReleased == ret.leaked = {}

\* The last call, extract_by_identifier or extract_from_cell, found an
\* image and could not write it: the destination cannot be written and
\* either the image's archive entry was read (Scheme A) or the position-map
\* lookup found an image at the cell (Scheme B).
WriteFailed ==
    /\ ret.op \in {"extract_image_by_id", "extract_image_from_cell"}
    /\ ret.dest = "readonly"
    /\ \/ ret.reads # {}
       \/ /\ CellCall
          /\ ret.schemeB
          /\ AnchoredAt(CalledSheet, CalledCell) # {}

\* C19: a write failure of the destination during extract_by_identifier or
\* extract_from_cell reaches the caller as an error, not as the none result
\* of a lookup miss.
C19_WriteFailureSurfaced == WriteFailed => ret.raised # NoError

\* The extensions the media enumeration recognizes.
RecognizedExtensions == {".png", ".jpg", ".jpeg", ".gif", ".bmp", ".tiff", ".webp"}

\* The entries of an archive under the media prefix that are files with a
\* recognized extension, upper or lower case.
RecognizedMedia(f) ==
    {n \in DOMAIN f.entries :
        /\ EntryOf(n).prefix = MediaPrefix
        /\ EntryOf(n).stem # ""
        /\ LowerExt(n) \in RecognizedExtensions}

\* C20: the media enumeration lists exactly the media entries with a
\* recognized extension, and the other media enumerations apply the same
\* set: the extraction of all media saves exactly these entries, and the
\* first-available fallback finds an image whenever there is one of them.
C20_RecognizedMediaOnly ==
    /\ (ret.op = "extract_floating_images" /\ files[ret.path].zip)
       => Range(ret.listed) =
              {EntryOf(n).stem \o EntryOf(n).ext : n \in RecognizedMedia(files[ret.path])}
    /\ (/\ ret.op = "extract_floating_images_from_sheet"
        /\ files[ret.path].zip
        /\ ret.dest = "writable")
       => ret.reads = RecognizedMedia(files[ret.path])
    /\ (/\ ret.op = "extract_first_available_image"
        /\ files[ret.path].zip
        /\ ret.dest = "writable"
        /\ Resolved(files[ret.path]) = EmptyMap)
       => (ret.result # None <=> RecognizedMedia(files[ret.path]) # {})

(***************************************************************************)
(* Two callers of the cache functions.  The functions take no lock, so a   *)
(* caller can be preempted between any two statements: each action below   *)
(* is one statement (or one run of statements that touch no shared dict)   *)
(* of _build_image_position_cache, _get_cached_workbook or                 *)
(* clear_image_cache.  With exclusive = TRUE the callers serialise their   *)
(* calls, which is the single-threaded use.                                *)
(***************************************************************************)
ThreadWorlds == {OneFile(BaseWorkbook), OneFile(Unparsable(BaseWorkbook))}

\* The shared dicts and their history.
Shared == <<workbook_cache, image_position_cache, built_from, loads, closed, scans, parsed>>

\* Mutant: the workbook lookup never finds the path.
WorkbookCached_never(path) == FALSE

\* if xlsx_path in _workbook_cache (line 46), not in (line 99)
WorkbookCached(path) == path \in DOMAIN workbook_cache

\* A caller enters a cache function; callers that serialise their calls
\* enter only when no other caller is inside one.
MayEnter(t) ==
    /\ threads[t].pc = "idle"
    /\ exclusive => \A u \in Threads : threads[u].pc = "idle"

Enter(t, pc, path, sheet) ==
    /\ MayEnter(t)
    /\ threads' = [threads EXCEPT ![t] = [IdleFrame EXCEPT !.pc = pc, !.path = path,
                                                           !.sheet = sheet]]
    /\ UNCHANGED <<files, Shared, ret, proc, exclusive, gui>>

\* The caller moves to statement pc with its locals changed to frame.
Goto(t, frame, pc) == threads' = [threads EXCEPT ![t] = [frame EXCEPT !.pc = pc]]

\* The caller returns.
Leave(t, call) ==
    /\ threads' = [threads EXCEPT ![t] = IdleFrame]
    /\ ret' = call

CallBuild(t, path, sheet) == Enter(t, "b39", path, sheet)

CallGet(t, path) == Enter(t, "g99", path, "")

CallClear(t) == Enter(t, "c109", "", "")

\* Lines 37-42: the key is looked up; a hit returns the stored map.
BuildLookup(t) ==
    LET f == threads[t]
        key == cache_key(f.path, f.sheet)
    IN  /\ f.pc = "b39"
        /\ IF key \in DOMAIN image_position_cache
           THEN /\ Leave(t, [NoCall EXCEPT !.op = "build_image_position_cache",
                                           !.path = f.path, !.sheet = f.sheet,
                                           !.map = image_position_cache[key],
                                           !.hit = TRUE])
                /\ UNCHANGED scans
           ELSE /\ Goto(t, f, "b46")
                /\ scans' = [scans EXCEPT ![<<f.path, f.sheet>>] = @ + 1]
                /\ UNCHANGED ret
        /\ UNCHANGED <<files, workbook_cache, image_position_cache, built_from, loads,
                       closed, parsed, proc, exclusive, gui>>

\* Lines 46-47: the stored workbook is taken when there is one.
BuildWorkbook(t) ==
    LET f == threads[t]
    IN  /\ f.pc = "b46"
        /\ IF WorkbookCached(f.path)
           THEN Goto(t, [f EXCEPT !.wb = workbook_cache[f.path]], "b52")
           ELSE Goto(t, f, "b49")
        /\ UNCHANGED <<files, Shared, ret, proc, exclusive, gui>>

\* Line 49: load_workbook; its exception ends the try block (line 89) with
\* the empty map.
BuildLoad(t) ==
    LET f == threads[t]
    IN  /\ f.pc = "b49"
        /\ IF files[f.path].loads
           THEN /\ loads < MaxLoads
                /\ loads' = loads + 1
                /\ parsed' = [parsed EXCEPT ![f.path] = @ + 1]
                /\ Goto(t, [f EXCEPT !.wb = loads + 1], "b50")
           ELSE /\ Goto(t, f, "b92")
                /\ UNCHANGED <<loads, parsed>>
        /\ UNCHANGED <<files, workbook_cache, image_position_cache, built_from, closed,
                       scans, ret, proc, exclusive, gui>>

\* Line 50: the loaded workbook is stored.
BuildStoreWorkbook(t) ==
    LET f == threads[t]
    IN  /\ f.pc = "b50"
        /\ workbook_cache' = Put(workbook_cache, f.path, f.wb)
        /\ Goto(t, f, "b52")
        /\ UNCHANGED <<files, image_position_cache, built_from, loads, closed, scans,
                       parsed, ret, proc, exclusive, gui>>

\* Lines 52-85: the sheet's images are scanned into the local map.
BuildScan(t) ==
    LET f == threads[t]
    IN  /\ f.pc = "b52"
        /\ Goto(t, [f EXCEPT !.map = ScanSheet(files[f.path], f.sheet)], "b92")
        /\ UNCHANGED <<files, Shared, ret, proc, exclusive, gui>>

\* Lines 92-93: the map is stored under the key and returned.
BuildStore(t) ==
    LET f == threads[t]
        key == cache_key(f.path, f.sheet)
    IN  /\ f.pc = "b92"
        /\ image_position_cache' = Put(image_position_cache, key, f.map)
        /\ built_from' = Put(built_from, key,
                             [path |-> f.path, sheet |-> f.sheet, wb |-> f.wb])
        /\ Leave(t, [NoCall EXCEPT !.op = "build_image_position_cache", !.path = f.path,
                                   !.sheet = f.sheet, !.map = f.map, !.wb = f.wb])
        /\ UNCHANGED <<files, workbook_cache, loads, closed, scans, parsed, proc,
                       exclusive, gui>>

\* Line 99: the path is looked up.
GetLookup(t) ==
    LET f == threads[t]
    IN  /\ f.pc = "g99"
        /\ IF WorkbookCached(f.path) THEN Goto(t, f, "g101") ELSE Goto(t, f, "g100")
        /\ UNCHANGED <<files, Shared, ret, proc, exclusive, gui>>

\* Line 100, right-hand side: load_workbook; its exception leaves the
\* function.
GetLoad(t) ==
    LET f == threads[t]
    IN  /\ f.pc = "g100"
        /\ IF files[f.path].loads
           THEN /\ loads < MaxLoads
                /\ loads' = loads + 1
                /\ parsed' = [parsed EXCEPT ![f.path] = @ + 1]
                /\ Goto(t, [f EXCEPT !.wb = loads + 1], "g100s")
                /\ UNCHANGED ret
           ELSE /\ Leave(t, [NoCall EXCEPT !.op = "get_cached_workbook", !.path = f.path,
                                           !.raised = "InvalidFileException"])
                /\ UNCHANGED <<loads, parsed>>
        /\ UNCHANGED <<files, workbook_cache, image_position_cache, built_from, closed,
                       scans, proc, exclusive, gui>>

\* Line 100, the assignment.
GetStore(t) ==
    LET f == threads[t]
    IN  /\ f.pc = "g100s"
        /\ workbook_cache' = Put(workbook_cache, f.path, f.wb)
        /\ Goto(t, f, "g101")
        /\ UNCHANGED <<files, image_position_cache, built_from, loads, closed, scans,
                       parsed, ret, proc, exclusive, gui>>

\* Line 101: return _workbook_cache[xlsx_path].
GetReturn(t) ==
    LET f == threads[t]
    IN  /\ f.pc = "g101"
        /\ Leave(t, IF f.path \in DOMAIN workbook_cache
                    THEN [NoCall EXCEPT !.op = "get_cached_workbook", !.path = f.path,
                                        !.wb = workbook_cache[f.path]]
                    ELSE [NoCall EXCEPT !.op = "get_cached_workbook", !.path = f.path,
                                        !.raised = "KeyError"])
        /\ UNCHANGED <<files, Shared, proc, exclusive, gui>>

\* Lines 109-114: every stored workbook is closed.
ClearClose(t) ==
    LET f == threads[t]
    IN  /\ f.pc = "c109"
        /\ closed' = closed \cup {workbook_cache[p] : p \in DOMAIN workbook_cache}
        /\ Goto(t, f, "c116")
        /\ UNCHANGED <<files, workbook_cache, image_position_cache, built_from, loads,
                       scans, parsed, ret, proc, exclusive, gui>>

\* Line 116: _image_position_cache.clear()
ClearMaps(t) ==
    LET f == threads[t]
    IN  /\ f.pc = "c116"
        /\ image_position_cache' = EmptyMap
        /\ built_from' = EmptyMap
        /\ scans' = [pr \in DOMAIN scans |-> 0]
        /\ Goto(t, f, "c117")
        /\ UNCHANGED <<files, workbook_cache, loads, closed, parsed, ret, proc,
                       exclusive, gui>>

\* Line 117: _workbook_cache.clear()
ClearWorkbooks(t) ==
    LET f == threads[t]
    IN  /\ f.pc = "c117"
        /\ workbook_cache' = EmptyMap
        /\ parsed' = [p \in DOMAIN parsed |-> 0]
        /\ Leave(t, [NoCall EXCEPT !.op = "clear_image_cache"])
        /\ UNCHANGED <<files, image_position_cache, built_from, loads, closed, scans,
                       proc, exclusive, gui>>

InitThreads ==
    /\ files \in ThreadWorlds
    /\ workbook_cache = EmptyMap
    /\ image_position_cache = EmptyMap
    /\ built_from = EmptyMap
    /\ loads = 0
    /\ closed = {}
    /\ scans = [pr \in (DOMAIN files) \X SheetArgs |-> 0]
    /\ ret = NoCall
    /\ proc = NoRun
    /\ threads = NoThreads
    /\ exclusive \in BOOLEAN
    /\ parsed = [p \in DOMAIN files |-> 0]
    /\ gui = NoGui

NextThreads ==
    \E t \in Threads :
        \/ \E path \in DOMAIN files, sheet \in SheetArgs : CallBuild(t, path, sheet)
        \/ \E path \in DOMAIN files : CallGet(t, path)
        \/ CallClear(t)
        \/ BuildLookup(t)
        \/ BuildWorkbook(t)
        \/ BuildLoad(t)
        \/ BuildStoreWorkbook(t)
        \/ BuildScan(t)
        \/ BuildStore(t)
        \/ GetLookup(t)
        \/ GetLoad(t)
        \/ GetStore(t)
        \/ GetReturn(t)
        \/ ClearClose(t)
        \/ ClearMaps(t)
        \/ ClearWorkbooks(t)

SpecThreads == InitThreads /\ [][NextThreads]_vars

(***************************************************************************)
(* Unsynchronised caches: claim C21.                                       *)
(***************************************************************************)
\* C21: callers that serialise their calls never make the workbook of a
\* path parse twice nor the anchor scan of a (path, sheet) run twice
\* between two clears; two callers that interleave get_workbook and
\* get_position_map without mutual exclusion reach a state where both
\* happened (the witness).
C21_RacesOnlyWhenConcurrent ==
    exclusive =>
        /\ \A p \in DOMAIN parsed : parsed[p] <= 1
        /\ \A pr \in DOMAIN scans : scans[pr] <= 1

\* Two interleaved callers parsed the same workbook twice and ran the same
\* anchor scan twice.
C21_Witness ==
    /\ ~exclusive
    /\ \E p \in DOMAIN parsed : parsed[p] = 2
    /\ \E pr \in DOMAIN scans : scans[pr] = 2

(***************************************************************************)
(* Index and anchor arithmetic of the position map: claims C22, C23.       *)
(***************************************************************************)
\* The anchors the build takes a row and a column from: a from sub-object
\* that has both, or no from sub-object and both on the anchor itself.
AnchorRead(img) ==
    \/ img.anchor.from /\ img.anchor.fromRC
    \/ ~img.anchor.from /\ img.anchor.flat

\* The key of an image: its zero-based anchor moved to one-based.
KeyOf(img) == <<img.anchor.row + 1, img.anchor.col + 1>>

\* C22: in a stored map built from a sheet, the image at zero-based
\* position i of the sheet's full image list whose anchor reads (row, col)
\* is recorded under key (row + 1, col + 1) with value i (the last such
\* image keeps the key when several share it); key components are at least
\* 1; every recorded index is a position in the full list, skipped images
\* counted, and the image at that position is the one anchored at the key.
C22_IndexInFullList ==
    \A k \in DOMAIN image_position_cache :
        LET b == built_from[k]
            m == image_position_cache[k]
            images == files[b.path].sheets[b.sheet].images
            last == Len(images) - 1
        IN  (b.wb # 0 /\ b.sheet \in DOMAIN files[b.path].sheets)
            => /\ \A pos \in DOMAIN m :
                      /\ pos[1] >= 1 /\ pos[2] >= 1
                      /\ m[pos] \in 0..last
                      /\ AnchorRead(images[m[pos] + 1])
                      /\ KeyOf(images[m[pos] + 1]) = pos
               /\ \A i \in 0..last :
                      AnchorRead(images[i + 1])
                      => /\ KeyOf(images[i + 1]) \in DOMAIN m
                         /\ m[KeyOf(images[i + 1])] >= i
                         /\ (\A j \in (i + 1)..last :
                                 ~(AnchorRead(images[j + 1])
                                   /\ KeyOf(images[j + 1]) = KeyOf(images[i + 1])))
                            => m[KeyOf(images[i + 1])] = i

\* The build has just run on a sheet whose first image was skipped and
\* whose second image is recorded with index 1.
C22_Witness ==
    /\ ret.op = "build_image_position_cache"
    /\ ~ret.hit
    /\ ret.sheet \in DOMAIN files[ret.path].sheets
    /\ LET images == files[ret.path].sheets[ret.sheet].images
       IN  /\ Len(images) = 2
           /\ ~AnchorRead(images[1])
           /\ AnchorRead(images[2])
           /\ KeyOf(images[2]) \in DOMAIN ret.map
           /\ ret.map[KeyOf(images[2])] = 1

C24_MissingRelsRaises ==
    (/\ ret.op \in {"get_all_image_ids", "extract_image_by_id"}
     /\ files[ret.path].zip
     /\ files[ret.path].hasManifest
     /\ ~files[ret.path].hasRels)
    => ret.raised # NoError

\* The caches, without their history.
BothCaches == <<workbook_cache, image_position_cache>>

\* C25: every extract_by_identifier call, whether it succeeds, misses or
\* fails, leaves the workbook cache and the position-map cache as they were
\* and loads and scans nothing, and its outcome is the one the manifest and
\* the relationship part of the archive give at the time of the call.
C25_ResolutionNeverCached ==
    [][ret'.op = "extract_image_by_id"
       => LET f == files'[ret'.path]
              m == Resolved(f)
          IN  /\ BothCaches' = BothCaches
              /\ loads' = loads /\ scans' = scans /\ built_from' = built_from
              /\ (f.zip /\ ret'.id \notin DOMAIN m)
                 => (ret'.result = None /\ ret'.raised = NoError /\ ret'.written = {})
              /\ (f.zip /\ ret'.id \in DOMAIN m /\ ret'.result # None)
                 => /\ ret'.reads = {"xl/" \o m[ret'.id]}
                    /\ ret'.written = {File(ret'.id \o ".png",
                                            f.entries["xl/" \o m[ret'.id]])}
              /\ (f.zip /\ ret'.id \in DOMAIN m /\ ret'.dest = "writable"
                    /\ ("xl/" \o m[ret'.id]) \in DOMAIN f.entries)
                 => ret'.result # None
              /\ ~f.zip => ret'.raised # NoError]_vars

\* While both caches hold entries, the archive was rewritten and a call
\* returned the entry the rewritten relationship part names.
C25_Witness ==
    /\ ret.op = "extract_image_by_id"
    /\ files[ret.path] = Workbook(BaseCells, BaseImages, S1, SwappedArchive)
    /\ ret.id = "ID_1"
    /\ ret.written = {File("ID_1.png", "JPG2")}
    /\ workbook_cache # EmptyMap
    /\ image_position_cache # EmptyMap

(***************************************************************************)
(* Maps and the workbooks they index: claim C26.                           *)
(***************************************************************************)
\* Every stored map that is not empty was built from the workbook now held
\* for the path it was built for.
MapsFromHeldWorkbooks ==
    \A k \in DOMAIN image_position_cache :
        image_position_cache[k] # EmptyMap
        => /\ built_from[k].path \in DOMAIN workbook_cache
           /\ workbook_cache[built_from[k].path] = built_from[k].wb

\* C26: in every state reached by get_workbook, get_position_map,
\* extract_from_cell and clear run one after the other, every stored map
\* that is not empty was built from the workbook the workbook cache holds
\* for its path, and a Scheme B lookup takes its index from a map built
\* from the sheet of the workbook whose image list it then indexes.
C26_IndexAgainstOwnWorkbook ==
    /\ MapsFromHeldWorkbooks
    /\ (/\ ret.op = "extract_image_from_cell"
        /\ ret.schemeB
        /\ RequestKey(ret) \in DOMAIN image_position_cache
        /\ CalledCell \in DOMAIN image_position_cache[RequestKey(ret)])
       => /\ built_from[RequestKey(ret)].path = ret.path
          /\ built_from[RequestKey(ret)].sheet = ret.sheet
          /\ workbook_cache[ret.path] = built_from[RequestKey(ret)].wb

(***************************************************************************)
(* Failed builds: claim C27.                                               *)
(***************************************************************************)
\* The keys whose stored map is the empty map of a build that had no
\* workbook.
FailedKeys == {k \in DOMAIN image_position_cache : built_from[k].wb = 0}

C28_NoOrphanMapAfterClear ==
    (\A t \in Threads : threads[t].pc = "idle")
    => \A k \in DOMAIN image_position_cache :
           (built_from[k].wb # 0 /\ image_position_cache[k] # EmptyMap)
           => built_from[k].path \in DOMAIN workbook_cache

\* The same for callers that serialise their calls.
SerialisedNoOrphanMap == exclusive => C28_NoOrphanMapAfterClear

(***************************************************************************)
(* The desktop interface: the start button, the worker thread of a run and *)
(* the callbacks it hands to the main loop (gui.py, lines 752-870).  The   *)
(* main thread runs one callback at a time; the worker runs                *)
(* process_excel_to_pdf beside it.                                         *)
(*   button   state of process_button                                      *)
(*   workers  worker threads that have not yet handed over their result    *)
(*   queue    callbacks given to root.after, oldest first                  *)
(*   status   what status_label shows                                      *)
(*   log      kind of the last operation-log entry                         *)
(***************************************************************************)
\* The rows and the filename column of the runs of the interface.
GuiRows == SeqsUpTo({<<"2">>, NaN}, MaxDataRows)

\* Mutant: the button stays enabled while the worker runs.
start_processing_keeps_button(g) ==
    [g EXCEPT !.status = "processing", !.workers = @ + 1, !.log = "info"]

\* start_processing after its checks (lines 804-827): the button is
\* disabled, then the worker thread is started.
start_processing(g) ==
    [g EXCEPT !.button = "disabled", !.status = "processing", !.workers = @ + 1,
              !.log = "info"]

\* root.after(0, callback), called by the worker (lines 821, 825, 831).
after(g, callback) == [g EXCEPT !.queue = Append(@, callback)]

\* _update_progress_ui (lines 833-836)
update_progress_ui(g) == [g EXCEPT !.status = "row"]

\* process_completed (lines 838-865)
process_completed(g, result) ==
    [g EXCEPT !.button = "normal",
              !.status = IF result.success THEN "completed" ELSE "failed",
              !.log = IF ~result.success THEN "error"
                      ELSE IF result.error_messages = <<>> THEN "success" ELSE "warning"]

\* process_error (lines 867-873)
process_error(g) == [g EXCEPT !.button = "normal", !.status = "failed", !.log = "error"]

\* The user presses the start button; Tk runs the command of an enabled
\* button only.  With an input missing the command returns after a warning
\* (lines 754-793).
StartProcessing(complete, rows) ==
    /\ gui.button = "normal"
    /\ IF complete
       THEN /\ gui' = start_processing(gui)
            /\ proc' = [NoRun EXCEPT !.pc = "ready", !.rows = rows, !.filename_column = "A"]
       ELSE /\ gui' = [gui EXCEPT !.log = "warning"]
            /\ UNCHANGED proc
    /\ UNCHANGED <<files, workbook_cache, image_position_cache, built_from, loads, closed,
                   scans, ret, threads, exclusive, parsed>>

NotGui == <<files, workbook_cache, image_position_cache, built_from, loads, closed, scans,
            ret, threads, exclusive, parsed>>

\* The worker enters process_excel_to_pdf (line 819).
WorkerStart(valid) ==
    /\ gui.workers >= 1
    /\ proc.pc = "ready"
    /\ proc' = IF valid THEN [proc EXCEPT !.pc = "rows"]
                        ELSE [proc EXCEPT !.pc = "done", !.success = FALSE]
    /\ UNCHANGED <<gui, NotGui>>

\* The worker processes one row; the progress callback of the row, when it
\* is reached and returns, hands _update_progress_ui to the main loop.
WorkerRow(outcome) ==
    /\ gui.workers >= 1
    /\ proc.pc = "rows"
    /\ proc.next <= Len(proc.rows)
    /\ proc' = process_row(proc, outcome)
    /\ gui' = IF outcome \in {"filled", "failed"} THEN after(gui, "progress") ELSE gui
    /\ UNCHANGED NotGui

\* process_excel_to_pdf returns its result.
WorkerReturn ==
    /\ gui.workers >= 1
    /\ proc.pc = "rows"
    /\ proc.next > Len(proc.rows)
    /\ proc' = [proc EXCEPT !.pc = "done", !.success = TRUE]
    /\ UNCHANGED <<gui, NotGui>>

\* Line 821, the last statement of the worker: process_completed is handed
\* to the main loop.
WorkerCompleted ==
    /\ gui.workers >= 1
    /\ proc.pc = "done"
    /\ gui' = [after(gui, "completed") EXCEPT !.workers = @ - 1]
    /\ proc' = [proc EXCEPT !.pc = "returned"]
    /\ UNCHANGED NotGui

\* Lines 822-825: an exception that leaves the try block of the worker
\* (the logging call of line 818, or of lines 371-375 before the try block
\* of process_excel_to_pdf); process_error is handed to the main loop.
WorkerRaised ==
    /\ gui.workers >= 1
    /\ proc.pc = "ready"
    /\ gui' = [after(gui, "error") EXCEPT !.workers = @ - 1]
    /\ proc' = [proc EXCEPT !.pc = "raised"]
    /\ UNCHANGED NotGui

\* The main loop runs the oldest pending callback.
Dispatch ==
    /\ gui.queue # <<>>
    /\ LET g == [gui EXCEPT !.queue = Tail(@)]
       IN  gui' = CASE Head(gui.queue) = "progress" -> update_progress_ui(g)
                    [] Head(gui.queue) = "completed" -> process_completed(g, proc)
                    [] OTHER -> process_error(g)
    /\ UNCHANGED <<proc, NotGui>>

Worker ==
    \/ \E valid \in BOOLEAN : WorkerStart(valid)
    \/ \E outcome \in RowOutcomes : WorkerRow(outcome)
    \/ WorkerReturn
    \/ WorkerCompleted
    \/ WorkerRaised

InitGui ==
    /\ files = OneFile(BaseWorkbook)
    /\ workbook_cache = EmptyMap
    /\ image_position_cache = EmptyMap
    /\ built_from = EmptyMap
    /\ loads = 0
    /\ closed = {}
    /\ scans = [pr \in (DOMAIN files) \X SheetArgs |-> 0]
    /\ ret = NoCall
    /\ proc = NoRun
    /\ threads = NoThreads
    /\ exclusive = TRUE
    /\ parsed = [p \in DOMAIN files |-> 0]
    /\ gui = NoGui

NextGui ==
    \/ \E complete \in BOOLEAN, rows \in GuiRows : StartProcessing(complete, rows)
    \/ Worker
    \/ Dispatch

\* The worker thread is scheduled as long as it has a statement to run, and
\* mainloop runs every pending callback.
SpecGuiFair == InitGui /\ [][NextGui]_vars /\ WF_vars(Worker) /\ WF_vars(Dispatch)

(***************************************************************************)
(* One worker at a time: claim C29.                                        *)
(***************************************************************************)
\* C29: at most one worker thread runs at any time; a worker is started
\* only by a step that finds the button enabled and disables it; the button
\* is re-enabled only by process_completed or process_error, taken from the
\* queue when the worker has handed over its result; and every run that
\* was started re-enables the button.
C29_OneWorkerAtATime ==
    /\ [](gui.workers <= 1)
    /\ [][gui'.workers > gui.workers
            => gui.button = "normal" /\ gui'.button = "disabled"]_vars
    /\ [][(gui.button = "disabled" /\ gui'.button = "normal")
            => /\ gui.workers = 0
               /\ gui.queue # <<>>
               /\ Head(gui.queue) \in {"completed", "error"}
               /\ proc.pc \in {"returned", "raised"}]_vars
    /\ (gui.button = "disabled") ~> (gui.button = "normal")

\* A run of two rows, one of which failed, has handed over its result and
\* process_completed has re-enabled the button.
C29_Witness ==
    /\ gui.button = "normal"
    /\ gui.workers = 0
    /\ gui.status = "completed"
    /\ gui.log = "warning"
    /\ proc.pc = "returned"
    /\ Len(proc.rows) = 2

(***************************************************************************)
(* Row accounting of process_excel_to_pdf: claim C30.                      *)
(***************************************************************************)
\* C30: a failure or an exception in one data row does not stop the rows
\* after it, and a call that returns success has visited every row and
\* reports success_count + error_count = total_rows and as many generated
\* paths as successes (error_count is the number of error messages).
C30_RowsAccounted ==
    (proc.pc = "done" /\ proc.success)
    => /\ proc.next = Len(proc.rows) + 1
       /\ proc.success_count + Len(proc.error_messages) = Len(proc.rows)
       /\ Len(proc.generated_pdf_paths) = proc.success_count

\* The parts of the claim that do not count the error messages.
RowsVisitedAndPathsCounted ==
    (proc.pc = "done" /\ proc.success)
    => /\ proc.next = Len(proc.rows) + 1
       /\ Len(proc.generated_pdf_paths) = proc.success_count
       /\ proc.success_count <= Len(proc.rows)

====
